---- MODULE Spec2Model ----
(***************************************************************************)
(* Block-level markdown parser of markdown-server                          *)
(* (src/markdown/parser/block.go).                                         *)
(*                                                                         *)
(* A byte buffer is a sequence of one-character strings.  Go indices are   *)
(* 0-based and are kept that way: At(data, i) is data[i], Slice(data,a,b)  *)
(* is data[a:b] and From(data, a) is data[a:].  An index outside the       *)
(* buffer is outside the domain of the sequence, exactly where the Go code *)
(* would panic.                                                            *)
(***************************************************************************)
EXTENDS Integers, Sequences, FiniteSets, TLC

(***************************************************************************)
(* Bounds of the model.                                                    *)
(***************************************************************************)
\* the value given to p.maxNesting (the parser is built outside block.go)
MaxNesting == 3
\* the number of lines of the documents that are enumerated
MaxLines == 3

VARIABLES input, ext, nodes, tip, nesting, stack, last, calc, attr, includeStack,
          reload

vars ==
  <<input, ext, nodes, tip, nesting, stack, last, calc, attr, includeStack,
    reload>>

\* the live reload of the server is not running
NoReload == <<>>

NL == "\n"
SP == " "
TAB == "\t"
\* the backtick byte (a string cannot hold the character itself)
BT == "backtick"

\* the one value of a set of one value: S is evaluated before it is used
The(S) == CHOOSE x \in S : TRUE

At(data, i) == data[i + 1]
Slice(data, a, b) == SubSeq(data, a + 1, b)
From(data, a) == SubSeq(data, a + 1, Len(data))

HasPrefix(data, pre) ==
  Len(data) >= Len(pre) /\ Slice(data, 0, Len(pre)) = pre

Min(a, b) == IF a < b THEN a ELSE b
Range(s) == {s[k] : k \in 1..Len(s)}

(***************************************************************************)
(* Character classes.                                                      *)
(***************************************************************************)
Digits == {"0", "1", "2", "3", "4", "5", "6", "7", "8", "9"}
LowerLetters ==
  {"a", "b", "c", "d", "e", "f", "g", "h", "i", "j", "k", "l", "m",
   "n", "o", "p", "q", "r", "s", "t", "u", "v", "w", "x", "y", "z"}
UpperLetters ==
  {"A", "B", "C", "D", "E", "F", "G", "H", "I", "J", "K", "L", "M",
   "N", "O", "P", "Q", "R", "S", "T", "U", "V", "W", "X", "Y", "Z"}

IsAlnum(c) == c \in Digits \cup LowerLetters \cup UpperLetters
IsSpace(c) == c \in {SP, TAB, NL, "\r", "\f"}

(***************************************************************************)
(* Scanning primitives (block.go, the end of the file).                    *)
(***************************************************************************)
RECURSIVE skipChar(_, _, _)
skipChar(data, i, c) ==
  IF i < Len(data) /\ At(data, i) = c THEN skipChar(data, i + 1, c) ELSE i

RECURSIVE skipCharN(_, _, _, _)
skipCharN(data, i, c, max) ==
  IF i < Len(data) /\ max > 0 /\ At(data, i) = c
  THEN skipCharN(data, i + 1, c, max - 1)
  ELSE i

RECURSIVE skipUntilChar(_, _, _)
skipUntilChar(data, i, c) ==
  IF i < Len(data) /\ At(data, i) # c THEN skipUntilChar(data, i + 1, c) ELSE i

RECURSIVE skipAlnum(_, _)
skipAlnum(data, i) ==
  IF i < Len(data) /\ IsAlnum(At(data, i)) THEN skipAlnum(data, i + 1) ELSE i

RECURSIVE backChar(_, _, _)
backChar(data, i, c) ==
  IF i > 0 /\ At(data, i - 1) = c THEN backChar(data, i - 1, c) ELSE i

RECURSIVE backUntilChar(_, _, _)
backUntilChar(data, i, c) ==
  IF i > 0 /\ At(data, i - 1) # c THEN backUntilChar(data, i - 1, c) ELSE i

\* the scan of IsEmpty: the index of the first newline, or -1 when a character
\* other than space and tab comes first
RECURSIVE emptyScan(_, _)
emptyScan(data, i) ==
  IF i < Len(data) /\ At(data, i) # NL
  THEN IF At(data, i) # SP /\ At(data, i) # TAB THEN -1 ELSE emptyScan(data, i + 1)
  ELSE i

IsEmpty(data) ==
  IF Len(data) = 0 THEN 0
  ELSE LET i == emptyScan(data, 0)
       IN IF i < 0 THEN 0 ELSE skipCharN(data, i, NL, 1)

\* bytes.IndexByte(data, c): -1 when c does not occur
IndexByte(data, c) ==
  LET i == skipUntilChar(data, 0, c) IN IF i < Len(data) THEN i ELSE -1

\* bytes.LastIndexByte(data, c): -1 when c does not occur
LastIndexByte(data, c) == backUntilChar(data, Len(data), c) - 1

RECURSIVE countBackslashes(_, _, _)
countBackslashes(data, i, k) ==
  IF i - k - 1 >= 0 /\ At(data, i - k - 1) = "\\"
  THEN countBackslashes(data, i, k + 1)
  ELSE k

isBackslashEscaped(data, i) == countBackslashes(data, i, 0) % 2 = 1

(***************************************************************************)
(* sanitizeHeadingID                                                       *)
(***************************************************************************)
IsLetter(r) == r \in LowerLetters \cup UpperLetters
IsNumber(r) == r \in Digits

UpperSeq ==
  <<"A", "B", "C", "D", "E", "F", "G", "H", "I", "J", "K", "L", "M",
    "N", "O", "P", "Q", "R", "S", "T", "U", "V", "W", "X", "Y", "Z">>
LowerSeq ==
  <<"a", "b", "c", "d", "e", "f", "g", "h", "i", "j", "k", "l", "m",
    "n", "o", "p", "q", "r", "s", "t", "u", "v", "w", "x", "y", "z">>

ToLower(r) ==
  IF r \in UpperLetters
  THEN LowerSeq[CHOOSE k \in 1..26 : UpperSeq[k] = r]
  ELSE r

EmptyID == <<"e", "m", "p", "t", "y">>

\* the loop over the runes of text: k is the position, anchorName the runes
\* gathered so far
RECURSIVE sanitizeLoop(_, _, _, _)
sanitizeLoop(text, k, anchorName, futureDash) ==
  IF k > Len(text) THEN anchorName
  ELSE IF IsLetter(text[k]) \/ IsNumber(text[k])
       THEN sanitizeLoop(text, k + 1,
              (IF futureDash /\ Len(anchorName) > 0
               THEN Append(anchorName, "-") ELSE anchorName) \o <<ToLower(text[k])>>,
              FALSE)
       ELSE sanitizeLoop(text, k + 1, anchorName, TRUE)

sanitizeEmptyAsNothing(text) == sanitizeLoop(text, 1, <<>>, FALSE)

sanitizeHeadingID(text) ==
  LET anchorName == sanitizeLoop(text, 1, <<>>, FALSE)
  IN IF Len(anchorName) = 0 THEN EmptyID ELSE anchorName

(***************************************************************************)
(* Extension flags: p.extensions is the set of the flags that are set.     *)
(***************************************************************************)
\* the test of FencedCode always passes
HasFencedCode(e, flag) == flag = "FencedCode" \/ flag \in e

Has(e, flag) == flag \in e

\* p.maxNesting, the cap on the depth of the calls of Block
maxNesting == MaxNesting

(***************************************************************************)
(* Prefixed headings                                                       *)
(***************************************************************************)
isPrefixHeading(data, e) ==
  IF Len(data) > 0 /\ At(data, 0) # "#" THEN FALSE
  ELSE IF Has(e, "SpaceHeadings")
       THEN LET spaced(level) == ~(level = Len(data) \/ At(data, level) # SP)
            IN spaced(skipCharN(data, 0, "#", 6))
       ELSE TRUE

\* for j = i; j < end-1 && (data[j] != '{' || data[j+1] != '#'); j++
RECURSIVE idOpenScan(_, _, _)
idOpenScan(data, j, end) ==
  IF j < end - 1 /\ (At(data, j) # "{" \/ At(data, j + 1) # "#")
  THEN idOpenScan(data, j + 1, end)
  ELSE j

\* for k = j + 1; k < end && data[k] != '}'; k++
RECURSIVE idCloseScan(_, _, _)
idCloseScan(data, k, end) ==
  IF k < end /\ At(data, k) # "}" THEN idCloseScan(data, k + 1, end) ELSE k

\* for end > 0 && data[end-1] == ' ' { end-- }
RECURSIVE trimSpacesBack(_, _)
trimSpacesBack(data, end) ==
  IF end > 0 /\ At(data, end - 1) = SP THEN trimSpacesBack(data, end - 1) ELSE end

\* for end > 0 && data[end-1] == '#' { if isBackslashEscaped(data, end-1) break; end-- }
RECURSIVE trimHashesBack(_, _)
trimHashesBack(data, end) ==
  IF end > 0 /\ At(data, end - 1) = "#" /\ ~isBackslashEscaped(data, end - 1)
  THEN trimHashesBack(data, end - 1)
  ELSE end

\* the part of prefixHeading and prefixSpecialHeading after the text start i is
\* known: the heading id, the end of the text and the bytes to skip
headingText(data, i, e) ==
  LET ids(end0, j, k) ==
        LET found == Has(e, "HeadingIDs") /\ j < end0 /\ k < end0
            trimmed(end1) == trimSpacesBack(data, trimHashesBack(data, end1))
        IN [skip |-> IF found THEN k + 1 ELSE end0,
            id |-> IF found THEN Slice(data, j + 2, k) ELSE <<>>,
            end |-> trimmed(IF found THEN trimSpacesBack(data, j) ELSE end0),
            i |-> i]
      closing(end0, j) == ids(end0, j, idCloseScan(data, j + 1, end0))
      opening(end0) == closing(end0, idOpenScan(data, i, end0))
  IN opening(skipUntilChar(data, i, NL))

prefixHeading(data, e) ==
  LET node(level, h) ==
        [skip |-> h.skip, block |-> h.end > h.i, level |-> level, id |-> h.id,
         content |-> IF h.end > h.i THEN Slice(data, h.i, h.end) ELSE <<>>]
      text(level) == node(level, headingText(data, skipChar(data, level, SP), e))
  IN text(skipCharN(data, 0, "#", 6))

\* p.extensions|Mmark == 0 never holds: the union with Mmark is not empty
isPrefixSpecialHeading(data, e) ==
  IF (e \cup {"Mmark"}) = {} THEN FALSE
  ELSE IF Len(data) < 4 THEN FALSE
  ELSE IF At(data, 0) # "." THEN FALSE
  ELSE IF At(data, 1) # "#" THEN FALSE
  ELSE IF At(data, 2) = "#" THEN FALSE
  ELSE IF Has(e, "SpaceHeadings") THEN At(data, 2) = SP
  ELSE TRUE

prefixSpecialHeading(data, e) ==
  LET node(h) ==
        [skip |-> h.skip, block |-> h.end > h.i, level |-> 1, id |-> h.id,
         content |-> IF h.end > h.i THEN Slice(data, h.i, h.end) ELSE <<>>]
  IN node(headingText(data, skipChar(data, 2, SP), e))

isUnderlinedHeading(data) ==
  LET ends(i) == i < Len(data) /\ At(data, i) = NL
  IN IF At(data, 0) = "="
     THEN IF ends(skipChar(data, skipChar(data, 1, "="), SP)) THEN 1 ELSE 0
     ELSE IF At(data, 0) = "-"
     THEN IF ends(skipChar(data, skipChar(data, 1, "-"), SP)) THEN 2 ELSE 0
     ELSE 0

(***************************************************************************)
(* Title block                                                             *)
(***************************************************************************)
\* the first index idx of bytes.Split(data, "\n") whose piece has no "%"
\* prefix, as the offset at which that piece starts; -1 when every piece has it
RECURSIVE titleScan(_, _)
titleScan(data, pos) ==
  IF pos < Len(data) /\ At(data, pos) = "%"
  THEN LET next(nl) == IF nl >= Len(data) THEN -1 ELSE titleScan(data, nl + 1)
       IN next(skipUntilChar(data, pos, NL))
  ELSE pos

\* bytes.Replace(data, "\n% ", "\n", -1)
RECURSIVE replaceTitleMarks(_, _)
replaceTitleMarks(data, k) ==
  IF k >= Len(data) THEN <<>>
  ELSE IF HasPrefix(From(data, k), <<NL, "%", SP>>)
       THEN <<NL>> \o replaceTitleMarks(data, k + 3)
       ELSE <<At(data, k)>> \o replaceTitleMarks(data, k + 1)

titleBlock(data) ==
  IF At(data, 0) # "%" THEN [ret |-> 0, block |-> FALSE, content |-> <<>>]
  ELSE LET \* splitData[0:i] joined: i = 0 when no piece lacks the prefix
           block(joined) ==
             [ret |-> Len(joined), block |-> TRUE,
              content |-> replaceTitleMarks(
                IF HasPrefix(joined, <<"%", SP>>) THEN From(joined, 2) ELSE joined, 0)]
           join(pos) == block(IF pos <= 0 THEN <<>> ELSE Slice(data, 0, pos - 1))
       IN join(titleScan(data, 0))

(***************************************************************************)
(* Horizontal rule                                                         *)
(***************************************************************************)
\* for i < 3 && data[i] == ' ' { i++ }: data[i] is read unguarded
RECURSIVE skipSpaces3(_, _)
skipSpaces3(data, i) ==
  IF i < 3 /\ At(data, i) = SP THEN skipSpaces3(data, i + 1) ELSE i

\* the scan of the rule line: the number of rule characters, -1 when another
\* character than the rule character and the space occurs
RECURSIVE hruleScan(_, _, _, _)
hruleScan(data, i, c, n) ==
  IF i < Len(data) /\ At(data, i) # NL
  THEN IF At(data, i) = c THEN hruleScan(data, i + 1, c, n + 1)
       ELSE IF At(data, i) # SP THEN -1
       ELSE hruleScan(data, i + 1, c, n)
  ELSE n

isHRule(data) ==
  LET rule(i) ==
        IF At(data, i) # "*" /\ At(data, i) # "-" /\ At(data, i) # "_" THEN FALSE
        ELSE hruleScan(data, i, At(data, i), 0) >= 3
  IN rule(skipSpaces3(data, 0))

(***************************************************************************)
(* Fenced code blocks                                                      *)
(***************************************************************************)
NoFence == [end |-> 0, marker |-> <<>>, syntax |-> <<>>]

\* for i < n && data[i] != '}' && data[i] != '\n' { syn++; i++ }
RECURSIVE braceScan(_, _)
braceScan(data, i) ==
  IF i < Len(data) /\ At(data, i) # "}" /\ At(data, i) # NL
  THEN braceScan(data, i + 1)
  ELSE i

\* for syn > 0 && IsSpace(data[syntaxStart]) { syntaxStart++; syn-- }
RECURSIVE stripFront(_, _, _)
stripFront(data, start, syn) ==
  IF syn > 0 /\ IsSpace(At(data, start))
  THEN stripFront(data, start + 1, syn - 1)
  ELSE [start |-> start, syn |-> syn]

\* for syn > 0 && IsSpace(data[syntaxStart+syn-1]) { syn-- }
RECURSIVE stripBack(_, _, _)
stripBack(data, start, syn) ==
  IF syn > 0 /\ IsSpace(At(data, start + syn - 1))
  THEN stripBack(data, start, syn - 1)
  ELSE syn

\* the result is (syntaxStart, syn) and the new value of *iout
syntaxRange(data, iout) ==
  IF At(data, iout) = "{"
  THEN LET stripped(i, f) ==
             [start |-> f.start, syn |-> stripBack(data, f.start, f.syn), i |-> i + 1]
           braced(i) ==
             IF i >= Len(data) \/ At(data, i) # "}"
             THEN [start |-> 0, syn |-> 0, i |-> iout]
             ELSE stripped(i, stripFront(data, iout + 1, i - (iout + 1)))
       IN braced(braceScan(data, iout + 1))
  ELSE LET plain(i) == [start |-> iout, syn |-> i - iout, i |-> i]
       IN plain(skipUntilChar(data, iout, NL))

\* the end of isFenceLine: the rest of the line must be spaces
fenceLineEnd(data, i0, marker, syntax) ==
  LET rest(i) ==
        IF i >= Len(data) \/ At(data, i) # NL
        THEN IF i = Len(data)
             THEN [end |-> i, marker |-> marker, syntax |-> syntax]
             ELSE NoFence
        ELSE [end |-> i + 1, marker |-> marker, syntax |-> syntax]
  IN rest(skipChar(data, i0, SP))

\* the end marker is accepted when it is at least as long as the opening one
markerMismatchLonger(marker, oldmarker) ==
  marker[1] # oldmarker[1] \/ Len(marker) < Len(oldmarker)

\* marker != oldmarker
markerMismatch(marker, oldmarker) == marker # oldmarker

\* oldmarker = <<>> is the empty string: the line is read as an opening fence
isFenceLine(data, oldmarker) ==
  LET n == Len(data)
      info(marker, r) ==
        IF r.start = 0 /\ r.syn = 0 THEN NoFence
        ELSE fenceLineEnd(data, r.i, marker, Slice(data, r.start, r.start + r.syn))
      opening(marker, i2) ==
        IF i2 >= n
        THEN IF i2 = n THEN [end |-> i2, marker |-> marker, syntax |-> <<>>]
             ELSE NoFence
        ELSE info(marker, syntaxRange(data, i2))
      \* size = i1 - i0, marker = data[i-size:i]
      marked(i0, i1, marker) ==
        IF i1 - i0 < 3 THEN NoFence
        ELSE IF oldmarker # <<>> /\ markerMismatch(marker, oldmarker) THEN NoFence
        ELSE IF oldmarker = <<>> THEN opening(marker, skipChar(data, i1, SP))
        ELSE fenceLineEnd(data, i1, marker, <<>>)
      run(i0, i1) == marked(i0, i1, Slice(data, i0, i1))
      start(i0) ==
        IF i0 >= n THEN NoFence
        ELSE IF At(data, i0) # "~" /\ At(data, i0) # BT THEN NoFence
        ELSE run(i0, skipChar(data, i0, At(data, i0)))
  IN start(skipCharN(data, 0, SP, 3))

\* the loop of fencedCodeBlock: 0 when the buffer ends without a closing marker
RECURSIVE fenceLoop(_, _, _, _)
fenceLoop(data, beg, marker, work) ==
  LET line(end) ==
        IF end >= Len(data) THEN [ret |-> 0, work |-> <<>>]
        ELSE fenceLoop(data, end, marker, work \o Slice(data, beg, end))
      closed(fenceEnd) ==
        IF fenceEnd # 0 THEN [ret |-> beg + fenceEnd, work |-> work]
        ELSE The({line(end) : end \in {skipUntilChar(data, beg, NL) + 1}})
  IN The({closed(f.end) : f \in {isFenceLine(From(data, beg), marker)}})

\* a fence that nothing closes takes the rest of the buffer as its body
fencedCodeBlockToEnd(data) ==
  LET toEnd(f, r) ==
        IF r.ret = 0
        THEN [ret |-> Len(data), work |-> f.syntax \o <<NL>> \o From(data, f.end)]
        ELSE r
      body(f) ==
        IF f.end = 0 \/ f.end >= Len(data) THEN [ret |-> 0, work |-> <<>>]
        ELSE toEnd(f, fenceLoop(data, f.end, f.marker, f.syntax \o <<NL>>))
  IN body(isFenceLine(data, <<>>))

\* ret is the value returned when no caption follows; work is the content of
\* the code block (the syntax line and the lines between the fences)
fencedCodeBlock(data) ==
  LET body(f) ==
        IF f.end = 0 \/ f.end >= Len(data) THEN [ret |-> 0, work |-> <<>>]
        ELSE fenceLoop(data, f.end, f.marker, f.syntax \o <<NL>>)
  IN The({body(f) : f \in {isFenceLine(data, <<>>)}})

\* escapable, the characters a backslash may escape
escapable ==
  {"!", "\"", "#", "$", "%", "&", "'", "(", ")", "*", "+", ",", ".", "/", ":",
   ";", "<", "=", ">", "?", "@", "[", "\\", "]", "^", "_", BT, "{", "|", "}",
   "~", "-"}

\* html.UnescapeString on a named entity: the names of the table that the
\* documents use; a name that is not in the table is left as it is written
htmlUnescape(name) ==
  IF name = <<"a", "m", "p">> THEN <<"&">>
  ELSE IF name = <<"l", "t">> THEN <<"<">>
  ELSE IF name = <<"g", "t">> THEN <<">">>
  ELSE IF name = <<"q", "u", "o", "t">> THEN <<"\"">>
  ELSE <<"&">> \o name \o <<";">>

RECURSIVE entityNameEnd(_, _)
entityNameEnd(str, j) ==
  IF j < Len(str) /\ IsAlnum(At(str, j)) THEN entityNameEnd(str, j + 1) ELSE j

\* charEntity at offset k, the named form &[a-z][a-z0-9]{1,31}; : the offset
\* after the semicolon, or 0 when no entity starts at k
charEntity(str, k) ==
  LET named(j) ==
        IF /\ j < Len(str) /\ At(str, j) = ";"
           /\ j - (k + 1) >= 2 /\ j - (k + 1) <= 32
           /\ IsLetter(At(str, k + 1))
        THEN j + 1
        ELSE 0
  IN IF At(str, k) = "&" THEN named(entityNameEnd(str, k + 1)) ELSE 0

\* reEntityOrEscapedChar.ReplaceAllFunc(str, unescapeChar), from offset k on
RECURSIVE unescapeFrom(_, _)
unescapeFrom(str, k) ==
  LET entity(e) ==
        IF e > 0
        THEN htmlUnescape(Slice(str, k + 1, e - 1)) \o unescapeFrom(str, e)
        ELSE <<At(str, k)>> \o unescapeFrom(str, k + 1)
  IN IF k >= Len(str) THEN <<>>
     ELSE IF At(str, k) = "\\" /\ k + 1 < Len(str) /\ At(str, k + 1) \in escapable
     THEN <<At(str, k + 1)>> \o unescapeFrom(str, k + 2)
     ELSE entity(charEntity(str, k))

\* reBackslashOrAmp is the class [\&], which holds the ampersand alone: a text
\* without ampersand is returned as it is, its backslashes included
unescapeString(str) ==
  IF \E j \in 1..Len(str) : str[j] = "&" THEN unescapeFrom(str, 0) ELSE str

\* the newline that ends the first line is left at the head of the literal
finalizeCodeBlockKeepingNewline(content, isFenced) ==
  IF isFenced
  THEN LET split(newlinePos) ==
             [info |-> unescapeString(Slice(content, 0, newlinePos)),
              literal |-> From(content, newlinePos)]
       IN split(IndexByte(content, NL))
  ELSE [info |-> <<>>, literal |-> content]

finalizeCodeBlock(content, isFenced) ==
  IF isFenced
  THEN LET split(newlinePos) ==
             [info |-> unescapeString(Slice(content, 0, newlinePos)),
              literal |-> From(content, newlinePos + 1)]
       IN split(IndexByte(content, NL))
  ELSE [info |-> <<>>, literal |-> content]

(***************************************************************************)
(* Block quotes                                                            *)
(***************************************************************************)
quotePrefix(data) ==
  LET n == Len(data)
      mark(i) ==
        IF i < n /\ At(data, i) = ">"
        THEN IF i + 1 < n /\ At(data, i + 1) = SP THEN i + 2 ELSE i + 1
        ELSE 0
  IN mark(skipCharN(data, 0, SP, 3))

\* any blank line ends the quote, whatever follows it
terminateAtBlank(data, beg, end) == IsEmpty(From(data, beg)) > 0

terminateBlockquote(data, beg, end) ==
  IF IsEmpty(From(data, beg)) <= 0 THEN FALSE
  ELSE IF end >= Len(data) THEN TRUE
  ELSE quotePrefix(From(data, end)) = 0 /\ IsEmpty(From(data, end)) = 0

\* the line ends at its newline, whatever it holds
quoteLineEndPlain(data, end, e) == skipUntilChar(data, end, NL)

\* the inner loop of quote: the index of the newline that ends the line, with a
\* whole fenced code block stepped over
RECURSIVE quoteLineEnd(_, _, _)
quoteLineEnd(data, end, e) ==
  IF end < Len(data) /\ At(data, end) # NL
  THEN LET fenced(i) == IF i > 0 THEN end + i - 1 ELSE quoteLineEnd(data, end + 1, e)
       IN The({fenced(i) :
                 i \in {IF Has(e, "FencedCode") THEN fencedCodeBlock(From(data, end)).ret
                        ELSE 0}})
  ELSE end

RECURSIVE quoteLoop(_, _, _, _, _)
quoteLoop(data, beg, end, raw, e) ==
  IF beg < Len(data)
  THEN LET line(end1, pre) ==
             IF pre > 0
             THEN quoteLoop(data, end1, end1, raw \o Slice(data, beg + pre, end1), e)
             ELSE IF terminateBlockquote(data, beg, end1)
                  THEN [end |-> end1, raw |-> raw]
                  ELSE quoteLoop(data, end1, end1, raw \o Slice(data, beg, end1), e)
       IN The({line(p[1], p[2]) :
                 p \in {<<skipCharN(data, quoteLineEnd(data, beg, e), NL, 1),
                          quotePrefix(From(data, beg))>>}})
  ELSE [end |-> end, raw |-> raw]

\* end is the value returned when no caption follows, raw the body handed to Block
quote(data, e) == quoteLoop(data, 0, 0, <<>>, e)

(***************************************************************************)
(* Indented code blocks                                                    *)
(***************************************************************************)
codePrefix(data) ==
  LET n == Len(data)
  IN IF n >= 1 /\ At(data, 0) = TAB THEN 1
     ELSE IF n >= 4 /\ At(data, 3) = SP /\ At(data, 2) = SP
             /\ At(data, 1) = SP /\ At(data, 0) = SP THEN 4
     ELSE 0

RECURSIVE codeLoop(_, _, _)
codeLoop(data, i, work) ==
  IF i < Len(data)
  THEN LET line(i1, blankline, pre) ==
             IF pre = 0 /\ ~blankline THEN [i |-> i, work |-> work]
             ELSE codeLoop(data, i1,
                    work \o (IF blankline THEN <<NL>> ELSE Slice(data, i + pre, i1)))
           scan(i1) == line(i1, IsEmpty(Slice(data, i, i1)) > 0,
                            codePrefix(Slice(data, i, i1)))
       IN scan(skipCharN(data, skipUntilChar(data, i, NL), NL, 1))
  ELSE [i |-> i, work |-> work]

code(data) ==
  LET block(r) ==
        [ret |-> r.i,
         content |-> Slice(r.work, 0, backChar(r.work, Len(r.work), NL)) \o <<NL>>]
  IN block(codeLoop(data, 0, <<>>))

(***************************************************************************)
(* Lists                                                                   *)
(*                                                                         *)
(* ast.ListType is a bit set; it is the set of the names of the set bits.  *)
(* The unordered type is the absence of "Ordered" and "Definition".        *)
(***************************************************************************)
uliPrefix(data) ==
  LET bullet(i) ==
        IF i >= Len(data) - 1 THEN 0
        ELSE IF (At(data, i) # "*" /\ At(data, i) # "+" /\ At(data, i) # "-")
                \/ (At(data, i + 1) # SP /\ At(data, i + 1) # TAB) THEN 0
        ELSE i + 2
  IN bullet(skipCharN(data, 0, SP, 3))

\* for i < len(data) && data[i] >= '0' && data[i] <= '9' { i++ }
RECURSIVE skipDigits(_, _)
skipDigits(data, i) ==
  IF i < Len(data) /\ At(data, i) \in Digits THEN skipDigits(data, i + 1) ELSE i

oliPrefix(data) ==
  LET number(start, i) ==
        IF start = i \/ i >= Len(data) - 1 THEN 0
        ELSE IF (At(data, i) # "." /\ At(data, i) # ")")
                \/ ~(At(data, i + 1) = SP \/ At(data, i + 1) = TAB) THEN 0
        ELSE i + 2
      digits(start) == number(start, skipDigits(data, start))
  IN digits(skipCharN(data, 0, SP, 3))

dliPrefix(data) ==
  IF Len(data) < 2 THEN 0
  ELSE IF At(data, 0) # ":" \/ ~(At(data, 1) = SP \/ At(data, 1) = TAB) THEN 0
  ELSE skipChar(data, 0, SP) + 2

listTypeNeverChanged(data, flags) == FALSE

listTypeChanged(data, flags) ==
  IF dliPrefix(data) > 0 /\ "Definition" \notin flags THEN TRUE
  ELSE IF oliPrefix(data) > 0 /\ "Ordered" \notin flags THEN TRUE
  ELSE IF uliPrefix(data) > 0 /\ ("Ordered" \in flags \/ "Definition" \in flags) THEN TRUE
  ELSE FALSE

\* for i < len(data) && data[i-1] != '\n' { i++ }
RECURSIVE lineEnd(_, _)
lineEnd(data, i) ==
  IF i < Len(data) /\ At(data, i - 1) # NL THEN lineEnd(data, i + 1) ELSE i

\* for indent < 4 && line+indent < i && data[line+indent] == ' ' { indent++ }
RECURSIVE indentScan(_, _, _, _)
indentScan(data, line, i, indent) ==
  IF indent < 4 /\ line + indent < i /\ At(data, line + indent) = SP
  THEN indentScan(data, line, i, indent + 1)
  ELSE indent

\* for next < len(data)-1 && data[next] == '\n' { next++ }
RECURSIVE skipNewlines(_, _)
skipNewlines(data, next) ==
  IF next < Len(data) - 1 /\ At(data, next) = NL
  THEN skipNewlines(data, next + 1)
  ELSE next

\* a fence line is gathered as any other line of the item
fenceGathered(chunk, indent, isDefinitionList, e) == FALSE

\* if !isDefinitionList && p.extensions&FencedCode != 0: a fence line without
\* indent is not part of the list
fenceEndsItem(chunk, indent, isDefinitionList, e) ==
  /\ ~isDefinitionList /\ Has(e, "FencedCode")
  /\ isFenceLine(chunk, <<>>).end > 0 /\ indent = 0

\* The gatherlines loop of listItem.  s holds the loop's variables: i, line,
\* raw, containsBlankLine (cbl), sublist and *flags.  The result is s at the
\* exit of the loop.
RECURSIVE gatherlines(_, _, _, _, _)
gatherlines(data, s, itemIndent, isDefinitionList, e) ==
  IF s.line >= Len(data) THEN s
  ELSE
  LET line == s.line
      \* what the end of the loop body does: re-introduce the blank, add the line
      again(s1) == gatherlines(data, s1, itemIndent, isDefinitionList, e)
      add(i, flags, raw, chunk, sublist) ==
        The({again(s1) :
               s1 \in {[s EXCEPT !.flags = flags,
                                 !.raw = (IF s.cbl THEN raw \o <<NL>> ELSE raw) \o chunk,
                                 !.cbl = FALSE, !.sublist = sublist, !.line = i,
                                 !.i = i]}})
      stop(i, flags) == [s EXCEPT !.flags = flags, !.i = i]
      \* case dliPrefix: the index of the second last newline of raw
      sublistAt(chunk) ==
        IF s.sublist = 0
        THEN IF dliPrefix(chunk) > 0
             THEN backUntilChar(s.raw, Len(s.raw) - 1, NL)
             ELSE Len(s.raw)
        ELSE s.sublist
      nestedItem(i, indent, chunk) ==
        IF indent <= itemIndent
        THEN IF listTypeChanged(chunk, s.flags) THEN stop(i, s.flags \cup {"EndOfList"})
             ELSE IF s.cbl THEN stop(i, s.flags \cup {"ContainsBlock"})
             ELSE stop(i, s.flags)
        ELSE add(i, IF s.cbl THEN s.flags \cup {"ContainsBlock"} ELSE s.flags,
                 s.raw, chunk, sublistAt(chunk))
      afterBlank(i, next) ==
        IF i < Len(data) - 1 /\ At(data, i) # ":"
           /\ next < Len(data) - 1 /\ At(data, next) # ":"
        THEN stop(i, s.flags \cup {"EndOfList"})
        ELSE stop(i, s.flags)
      fit(i, indent, indentIndex, chunk) ==
        IF fenceEndsItem(chunk, indent, isDefinitionList, e)
        THEN stop(i, s.flags \cup {"EndOfList"})
        ELSE IF (uliPrefix(chunk) > 0 /\ ~isHRule(chunk))
                \/ oliPrefix(chunk) > 0 \/ dliPrefix(chunk) > 0
        THEN nestedItem(i, indent,
               IF indentIndex >= 4 /\ dliPrefix(chunk) <= 0
               THEN Slice(data, line + indentIndex - (skipChar(chunk, 0, SP) + 1), i)
               ELSE chunk)
        ELSE IF isPrefixHeading(chunk, e) \/ isPrefixSpecialHeading(chunk, e)
        THEN IF s.cbl /\ indent < 4 THEN stop(i, s.flags \cup {"EndOfList"})
             ELSE add(i, s.flags \cup {"ContainsBlock"}, s.raw, chunk, s.sublist)
        ELSE IF s.cbl /\ indent < 4
        THEN IF "Definition" \in s.flags /\ i < Len(data) - 1
             THEN afterBlank(i, skipNewlines(data, skipUntilChar(data, i, NL)))
             ELSE stop(i, s.flags \cup {"EndOfList"})
        ELSE IF s.cbl
        THEN add(i, s.flags \cup {"ContainsBlock"}, s.raw \o <<NL>>, chunk, s.sublist)
        ELSE add(i, s.flags, s.raw, chunk, s.sublist)
      indented(i, indent, indentIndex) ==
        The({fit(i, indent, indentIndex, chunk) :
               chunk \in {Slice(data, line + indentIndex, i)}})
      spaces(i, indent) == indented(i, indent, indent)
      scan(i) ==
        IF IsEmpty(Slice(data, line, i)) > 0
        THEN The({again(s1) : s1 \in {[s EXCEPT !.cbl = TRUE, !.line = i, !.i = i]}})
        ELSE IF At(data, line) = TAB THEN indented(i, 4, 1)
        ELSE The({spaces(i, indent) : indent \in {indentScan(data, line, i, 0)}})
  IN The({scan(i) : i \in {lineEnd(data, s.i + 1)}})

\* for i > 0 && i < len(data) && data[i-1] != '\n' { i++ }
RECURSIVE firstLineEnd(_, _)
firstLineEnd(data, i) ==
  IF i > 0 /\ i < Len(data) /\ At(data, i - 1) # NL
  THEN firstLineEnd(data, i + 1)
  ELSE i

\* The scan of listItem, up to the creation of the ListItem node.
\*   ok      FALSE when listItem returns 0 at once (no prefix, no definition list)
\*   ret     the value listItem returns (line)
\*   flags   *flags at the end
\*   marker  which prefix the item line has: "uli", "oli", "dli", or "term"
\* the definition term flag is not reset at a definition
itemFlagsTermKept(flags, u, o, d, i0) ==
  IF i0 = 0 /\ "Definition" \in flags THEN flags \cup {"Term"} ELSE flags

\* *flags &= ^ast.ListTypeTerm at a definition prefix, *flags |= ast.ListTypeTerm
\* at a line without prefix in a definition list
itemFlags(flags, u, o, d, i0) ==
  IF u = 0 /\ o = 0 /\ d > 0 THEN flags \ {"Term"}
  ELSE IF i0 = 0 /\ "Definition" \in flags THEN flags \cup {"Term"}
  ELSE flags

listItem(data, flags, e) ==
  LET isDefinitionList == "Definition" \in flags
      item(u, o, d, s) ==
        [ok |-> TRUE, ret |-> s.line, flags |-> s.flags, raw |-> s.raw,
         sublist |-> s.sublist,
         bulletChar |-> IF u > 0 THEN At(data, u - 2) ELSE "*",
         delimiter |-> IF o > 0 THEN At(data, o - 2) ELSE ".",
         marker |-> IF u > 0 THEN "uli" ELSE IF o > 0 THEN "oli"
                    ELSE IF d > 0 THEN "dli" ELSE "term",
         stopLine |-> s.line]
      gathered(u, o, d, s0) ==
        The({item(u, o, d, s) :
               s \in {gatherlines(data, s0,
                                  IF At(data, 0) = TAB THEN 4 ELSE skipSpaces3(data, 0),
                                  isDefinitionList, e)}})
      lines(u, o, d, flags1, i1, i2) ==
        The({gathered(u, o, d, s0) :
               s0 \in {[i |-> i2, line |-> i2, raw |-> Slice(data, i1, i2),
                        cbl |-> FALSE, sublist |-> 0, flags |-> flags1]}})
      first(u, o, d, flags1, i1) ==
        The({lines(u, o, d, flags1, i1, i2) : i2 \in {firstLineEnd(data, i1)}})
      prefixed(u, o, d, i0) ==
        IF i0 = 0 /\ ~isDefinitionList
        THEN [ok |-> FALSE, ret |-> 0, flags |-> flags, raw |-> <<>>, sublist |-> 0,
              bulletChar |-> "*", delimiter |-> ".", marker |-> "none",
              stopLine |-> 0]
        ELSE first(u, o, d, itemFlags(flags, u, o, d, i0), skipChar(data, i0, SP))
      definition(u, o, d) == prefixed(u, o, d, IF u > 0 THEN u ELSE IF o > 0 THEN o ELSE d)
      ordered(u, o) ==
        The({definition(u, o, d) :
               d \in {IF u = 0 /\ o = 0 THEN dliPrefix(data) ELSE 0}})
      unordered(u) ==
        The({ordered(u, o) : o \in {IF u = 0 THEN oliPrefix(data) ELSE 0}})
  IN The({unordered(u) : u \in {uliPrefix(data)}})

(***************************************************************************)
(* Block math and document matter                                          *)
(***************************************************************************)
\* for end = 2; end+1 < len(data) && (data[end] != '$' || data[end+1] != '$'); end++
RECURSIVE mathEnd(_, _)
mathEnd(data, end) ==
  IF end + 1 < Len(data) /\ (At(data, end) # "$" \/ At(data, end + 1) # "$")
  THEN mathEnd(data, end + 1)
  ELSE end

blockMath(data) ==
  IF Len(data) <= 4 \/ At(data, 0) # "$" \/ At(data, 1) # "$" \/ At(data, 2) = "$"
  THEN [ret |-> 0, literal |-> <<>>]
  ELSE LET math(end) ==
             IF end + 1 = Len(data) THEN [ret |-> 0, literal |-> <<>>]
             ELSE [ret |-> end + 2, literal |-> Slice(data, 2, end)]
       IN math(mathEnd(data, 2))

FrontMatter == <<"{", "f", "r", "o", "n", "t", "m", "a", "t", "t", "e", "r", "}">>
MainMatter == <<"{", "m", "a", "i", "n", "m", "a", "t", "t", "e", "r", "}">>
BackMatter == <<"{", "b", "a", "c", "k", "m", "a", "t", "t", "e", "r", "}">>

documentMatter(data) ==
  IF At(data, 0) # "{" THEN [ret |-> 0, matter |-> "none"]
  ELSE IF HasPrefix(data, BackMatter) THEN [ret |-> Len(BackMatter), matter |-> "back"]
  ELSE IF HasPrefix(data, MainMatter) THEN [ret |-> Len(MainMatter), matter |-> "main"]
  ELSE IF HasPrefix(data, FrontMatter)
  THEN [ret |-> Len(FrontMatter), matter |-> "front"]
  ELSE [ret |-> 0, matter |-> "none"]

(***************************************************************************)
(* HTML blocks                                                             *)
(***************************************************************************)
blockTags ==
  {<<"b", "l", "o", "c", "k", "q", "u", "o", "t", "e">>, <<"d", "e", "l">>,
   <<"d", "d">>, <<"d", "i", "v">>, <<"d", "l">>, <<"d", "t">>,
   <<"f", "i", "e", "l", "d", "s", "e", "t">>, <<"f", "o", "r", "m">>,
   <<"h", "1">>, <<"h", "2">>, <<"h", "3">>, <<"h", "4">>, <<"h", "5">>,
   <<"h", "6">>, <<"i", "f", "r", "a", "m", "e">>, <<"i", "n", "s">>,
   <<"l", "i">>, <<"m", "a", "t", "h">>,
   <<"n", "o", "s", "c", "r", "i", "p", "t">>, <<"o", "l">>,
   <<"p", "r", "e">>, <<"p">>, <<"s", "c", "r", "i", "p", "t">>,
   <<"s", "t", "y", "l", "e">>, <<"t", "a", "b", "l", "e">>, <<"u", "l">>,
   <<"a", "d", "d", "r", "e", "s", "s">>,
   <<"a", "r", "t", "i", "c", "l", "e">>, <<"a", "s", "i", "d", "e">>,
   <<"c", "a", "n", "v", "a", "s">>, <<"d", "e", "t", "a", "i", "l", "s">>,
   <<"d", "i", "a", "l", "o", "g">>,
   <<"f", "i", "g", "c", "a", "p", "t", "i", "o", "n">>,
   <<"f", "i", "g", "u", "r", "e">>, <<"f", "o", "o", "t", "e", "r">>,
   <<"h", "e", "a", "d", "e", "r">>, <<"h", "g", "r", "o", "u", "p">>,
   <<"m", "a", "i", "n">>, <<"n", "a", "v">>,
   <<"o", "u", "t", "p", "u", "t">>,
   <<"p", "r", "o", "g", "r", "e", "s", "s">>,
   <<"s", "e", "c", "t", "i", "o", "n">>, <<"s", "v", "g">>,
   <<"v", "i", "d", "e", "o">>}

htmlFindTag(data) ==
  LET find(key) ==
        IF key \in blockTags THEN [tag |-> key, found |-> TRUE]
        ELSE [tag |-> <<>>, found |-> FALSE]
  IN find(Slice(data, 0, skipAlnum(data, 0)))

\* the line after the closing tag is not looked at, whatever the extensions
htmlFindEndLax(tag, data, e) ==
  IF tag = <<"h", "r">> THEN 2
  ELSE LET closetag == <<"<", "/">> \o tag \o <<">">>
           blank(skip) == IF skip = 0 THEN 0 ELSE Len(closetag) + skip
       IN IF ~HasPrefix(data, closetag) THEN 0
          ELSE blank(IsEmpty(From(data, Len(closetag))))

htmlFindEnd(tag, data, e) ==
  IF tag = <<"h", "r">> THEN 2
  ELSE LET closetag == <<"<", "/">> \o tag \o <<">">>
           following(i, skip) == IF skip = 0 THEN 0 ELSE i + skip
           closed(skip, i) ==
             IF skip = 0 THEN 0
             ELSE IF i >= Len(data) THEN i
             ELSE IF Has(e, "LaxHTMLBlocks") THEN i
             ELSE following(i, IsEmpty(From(data, i)))
           blank(skip) == closed(skip, Len(closetag) + skip)
       IN IF ~HasPrefix(data, closetag) THEN 0
          ELSE blank(IsEmpty(From(data, Len(closetag))))

\* for i < len(data) && !(data[i-2] == '-' && data[i-1] == '-' && data[i] == '>') { i++ }
RECURSIVE commentEnd(_, _)
commentEnd(data, i) ==
  IF i < Len(data)
     /\ ~(At(data, i - 2) = "-" /\ At(data, i - 1) = "-" /\ At(data, i) = ">")
  THEN commentEnd(data, i + 1)
  ELSE i

\* the length of an HTML comment at the start of data, 0 when there is none
inlineHTMLComment(data) ==
  IF Len(data) < 5 THEN 0
  ELSE IF At(data, 0) # "<" \/ At(data, 1) # "!" \/ At(data, 2) # "-" \/ At(data, 3) # "-"
  THEN 0
  ELSE LET comment(i) == IF i >= Len(data) THEN 0 ELSE i + 1
       IN comment(commentEnd(data, 5))

htmlComment(data) ==
  LET blank(i, j) == IF j > 0 THEN i + j ELSE 0
      comment(i) == blank(i, IsEmpty(From(data, i)))
  IN comment(inlineHTMLComment(data))

\* for i < len(data) && data[i] != '>' && data[i] != '\n' { i++ }
RECURSIVE hrEnd(_, _)
hrEnd(data, i) ==
  IF i < Len(data) /\ At(data, i) # ">" /\ At(data, i) # NL
  THEN hrEnd(data, i + 1)
  ELSE i

htmlHr(data) ==
  IF Len(data) < 4 THEN 0
  ELSE IF At(data, 0) # "<" \/ (At(data, 1) # "h" /\ At(data, 1) # "H")
          \/ (At(data, 2) # "r" /\ At(data, 2) # "R") THEN 0
  ELSE IF At(data, 3) # SP /\ At(data, 3) # "/" /\ At(data, 3) # ">" THEN 0
  ELSE LET blank(i, j) == IF j > 0 THEN i + 1 + j ELSE 0
           tag(i) ==
             IF i < Len(data) /\ At(data, i) = ">"
             THEN blank(i, IsEmpty(From(data, i + 1)))
             ELSE 0
       IN tag(hrEnd(data, 3))

\* for i < len(data) && !(data[i-1] == '<' && data[i] == '/') { i++ }
RECURSIVE closeTagScan(_, _)
closeTagScan(data, i) ==
  IF i < Len(data) /\ ~(At(data, i - 1) = "<" /\ At(data, i) = "/")
  THEN closeTagScan(data, i + 1)
  ELSE i

\* the second pass of html: the end of the block, 0 when no closing tag ends it
RECURSIVE htmlEndLoop(_, _, _, _)
htmlEndLoop(data, i0, curtag, e) ==
  IF i0 < Len(data)
  THEN LET found(i, j) == IF j > 0 THEN i + j - 1 ELSE htmlEndLoop(data, i, curtag, e)
           close(i) ==
             IF i + 2 + Len(curtag) >= Len(data) THEN 0
             ELSE found(i, htmlFindEnd(curtag, From(data, i - 1), e))
       IN close(closeTagScan(data, i0 + 1))
  ELSE 0

\* the value html returns; the HTMLBlock holds data[:backChar(data, ret, '\n')]
html(data, e) ==
  IF At(data, 0) # "<" THEN 0
  ELSE LET hr(size) == IF size > 0 THEN size ELSE 0
           comment(size) == IF size > 0 THEN size ELSE hr(htmlHr(data))
           tag(t) ==
             IF ~t.found THEN comment(htmlComment(data))
             ELSE IF t.tag # <<"i", "n", "s">> /\ t.tag # <<"d", "e", "l">>
                  THEN htmlEndLoop(data, 1, t.tag, e)
                  ELSE 0
       IN tag(htmlFindTag(From(data, 1)))

(***************************************************************************)
(* Recognizers whose code is outside block.go.  Each one needs a character *)
(* at the start of its construct that the buffers of this model never hold *)
(* ("[" for references and footnotes, "|" for tables, "!" for figures,     *)
(* "A>" for asides, an upper-case caption word), so each reports no match. *)
(***************************************************************************)
isReference(data) == 0
tableHeader(data) == 0
table(data) == 0
figureBlock(data) == 0
asidePrefix(data) == 0
caption(data) == 0

(***************************************************************************)
(* Paragraphs                                                              *)
(***************************************************************************)
\* renderParagraph: the content of the Paragraph, data being non-empty
paragraphContent(data) ==
  LET beg == skipChar(data, 0, SP)
      end0 == IF At(data, Len(data) - 1) = NL THEN Len(data) - 1 ELSE Len(data)
      RECURSIVE trim(_)
      trim(end) == IF end > beg /\ At(data, end - 1) = SP THEN trim(end - 1) ELSE end
  IN Slice(data, beg, trim(end0))

\* for prev < eol && data[prev] == ' ' { prev++ }
RECURSIVE headStart(_, _, _)
headStart(data, prev, eol) ==
  IF prev < eol /\ At(data, prev) = SP THEN headStart(data, prev + 1, eol) ELSE prev

\* for eol > prev && data[eol-1] == ' ' { eol-- }
RECURSIVE headEnd(_, _, _)
headEnd(data, prev, eol) ==
  IF eol > prev /\ At(data, eol - 1) = SP THEN headEnd(data, prev, eol - 1) ELSE eol

\* only a horizontal rule ends the paragraph, no heading does
paragraphOverAtRule(current, e) == isHRule(current)

\* if there's a prefixed heading or a horizontal rule after this, paragraph
\* is over
paragraphOver(current, e) ==
  isPrefixHeading(current, e) \/ isPrefixSpecialHeading(current, e) \/ isHRule(current)

\* The loop of paragraph, up to the point where it renders or calls list.
\*   kind "para":    renderParagraph(data[:upto]); return ret
\*   kind "heading": renderParagraph(data[:upto]); add the underlined heading;
\*                   return ret
\*   kind "list":    p.list(data[prev:], ListTypeDefinition, 0, '.'); blank tells
\*                   which of the two calls it is, i and n are those of the loop
RECURSIVE paragraphLoop(_, _, _, _)
paragraphLoop(data, line0, i, e) ==
  IF i < Len(data)
  THEN
  LET prev == line0
      out(kind, upto, ret, n, blank, level, content) ==
        [kind |-> kind, upto |-> upto, ret |-> ret, prev |-> prev, i |-> i,
         n |-> n, blank |-> blank, level |-> level, content |-> content]
      para(upto, ret, n) == out("para", upto, ret, n, FALSE, 0, <<>>)
      underlined(level, p0) ==
        out("heading", prev, skipUntilChar(data, i, NL), 0, FALSE, level,
            Slice(data, p0, headEnd(data, p0, i - 1)))
      nextLine(nl) ==
        The({paragraphLoop(data, i, j, e) :
               j \in {IF nl >= 0 THEN i + nl + 1 ELSE Len(data)}})
      line(current, ref, n, level) ==
        IF ref > 0 THEN para(i, i + ref, n)
        ELSE IF n > 0
        THEN IF Has(e, "DefinitionLists") /\ i < Len(data) - 1 /\ At(data, i + 1) = ":"
             THEN out("list", i, i + n, n, TRUE, 0, <<>>)
             ELSE para(i, i + n, n)
        ELSE IF level > 0 THEN underlined(level, headStart(data, prev, i - 1))
        ELSE IF Has(e, "LaxHTMLBlocks") /\ At(data, i) = "<" /\ html(current, e) > 0
        THEN para(i, i, n)
        ELSE IF paragraphOver(current, e) THEN para(i, i, n)
        ELSE IF quotePrefix(current) > 0 THEN para(i, i, n)
        ELSE IF Has(e, "FencedCode") /\ fencedCodeBlock(current).ret > 0
        THEN para(i, i, n)
        ELSE IF Has(e, "Mmark") /\ figureBlock(current) > 0 THEN para(i, i, n)
        ELSE IF Has(e, "Tables") /\ tableHeader(current) > 0 THEN para(i, i, n)
        ELSE IF Has(e, "DefinitionLists") /\ dliPrefix(current) # 0
        THEN out("list", 0, 0, n, FALSE, 0, <<>>)
        ELSE IF Has(e, "NoEmptyLineBeforeBlock")
                /\ (uliPrefix(current) # 0 \/ oliPrefix(current) # 0
                    \/ quotePrefix(current) # 0 \/ codePrefix(current) # 0)
        THEN para(i, i, n)
        ELSE The({nextLine(nl) : nl \in {IndexByte(current, NL)}})
      at(current) ==
        The({line(current, t[1], t[2], t[3]) :
               t \in {<<isReference(current), IsEmpty(current),
                        IF i > 0 THEN isUnderlinedHeading(current) ELSE 0>>}})
  IN The({at(current) : current \in {From(data, i)}})
  ELSE [kind |-> "para", upto |-> i, ret |-> i, prev |-> line0, i |-> i,
        n |-> 0, blank |-> FALSE, level |-> 0, content |-> <<>>]

paragraph(data, e) == paragraphLoop(data, 0, 0, e)

(***************************************************************************)
(* The document tree.  nodes[k] is node k, nodes[1] the Document root;     *)
(* parent = 0 is the nil parent.  depth, marker, by and src are history    *)
(* fields: the value of p.nesting when the node was created, the prefix of *)
(* a list item, the function that created the node, and the bytes a        *)
(* paragraph was rendered from.  attribute is the attribute set of the     *)
(* node, NoAttribute for nil.                                              *)
(***************************************************************************)
\* an attribute set: text is what stands between the braces; serial (the
\* number of the staging, 0 for nil) and n0 (the number of nodes when it was
\* staged) tell one set from another with the same text
NoAttribute == [serial |-> 0, text |-> <<>>, n0 |-> 0]

\* p.attr: the pending slot; serial counts the stagings so far
NoPending == [pending |-> FALSE, serial |-> 0, text |-> <<>>, n0 |-> 0]

NewNode(type) ==
  [type |-> type, parent |-> 0, children |-> <<>>, level |-> 0, id |-> <<>>,
   content |-> <<>>, info |-> <<>>, fenced |-> FALSE, flags |-> {},
   tight |-> FALSE, start |-> 0, delim |-> ".", bullet |-> "*",
   marker |-> "none", by |-> "none", depth |-> 0, src |-> <<>>, at |-> 0,
   attribute |-> NoAttribute]

Containers == {"Document", "List", "ListItem", "BlockQuote"}

canNodeContain(ntype, vtype) ==
  IF ntype = "List" THEN vtype = "ListItem"
  ELSE IF ntype \in {"Document", "BlockQuote", "ListItem"} THEN vtype # "ListItem"
  ELSE FALSE

\* for !canNodeContain(p.tip, node) { p.Finalize(p.tip) }
RECURSIVE closeUntilContains(_, _, _)
closeUntilContains(ns, t, vtype) ==
  IF canNodeContain(ns[t].type, vtype) THEN t
  ELSE closeUntilContains(ns, ns[t].parent, vtype)

\* ast.AppendChild(p.tip, node); p.tip = node
appendChild(ns, t, node) ==
  [nodes |-> Append([ns EXCEPT ![t].children = Append(@, Len(ns) + 1)],
                    [node EXCEPT !.parent = t]),
   tip |-> Len(ns) + 1]

addChild(ns, t, node) ==
  appendChild(ns, closeUntilContains(ns, t, node.type), [node EXCEPT !.at = t])

\* the result of a call that leaves the pending slot as a
withAttr(r, a) == [nodes |-> r.nodes, tip |-> r.tip, attr |-> a]

\* if p.attr != nil { c.Attribute = p.attr / l.Attribute = p.attr }
attach(a, node) ==
  IF a.pending
  THEN [node EXCEPT !.attribute = [serial |-> a.serial, text |-> a.text, n0 |-> a.n0]]
  ELSE node

\* p.attr = nil
cleared(a) == [a EXCEPT !.pending = FALSE]

\* the node is hung under the tip as it is, whatever the tip is
AddBlockUnderTip(ns, t, a, node) ==
  withAttr(appendChild(ns, t, [attach(a, node) EXCEPT !.at = t]), cleared(a))

\* the pending attribute set stays in the slot
AddBlockKeepingAttribute(ns, t, a, node) ==
  withAttr(addChild(ns, t, attach(a, node)), a)

\* closeUnmatchedBlocks has nothing to close during block parsing
AddBlock(ns, t, a, node) ==
  withAttr(addChild(ns, t, attach(a, node)), cleared(a))

\* p.Finalize(block): the tip becomes the parent of block
Finalize(ns, block) == ns[block].parent

\* always false: the test of the last line is commented out in the source
RECURSIVE endsWithBlankLine(_, _)
endsWithBlankLine(ns, block) ==
  IF block = 0 THEN FALSE
  ELSE IF ns[block].type \in {"List", "ListItem"}
       THEN endsWithBlankLine(ns,
              IF ns[block].children = <<>> THEN 0
              ELSE ns[block].children[Len(ns[block].children)])
       ELSE FALSE

\* a list of two items or more is loose after finalizeList
finalizeListByItems(ns, list) ==
  IF Len(ns[list].children) > 1 THEN FALSE ELSE ns[list].tight

\* the value of list.Tight after finalizeList; the items walked are the
\* children of the parent of the list
finalizeList(ns, list) ==
  LET items == ns[ns[list].parent].children
      loose(k) ==
        LET item == items[k]
            isLastItem == k = Len(items)
            subItems == ns[ns[item].parent].children
        IN (~isLastItem /\ endsWithBlankLine(ns, item))
           \/ \E j \in 1..Len(subItems) :
                (~isLastItem \/ j # Len(subItems)) /\ endsWithBlankLine(ns, subItems[j])
  IN IF \E k \in 1..Len(items) : loose(k) THEN FALSE ELSE ns[list].tight

(***************************************************************************)
(* The dispatcher of Block: the recognizer that takes the buffer.          *)
(***************************************************************************)
DispatchRuleAfterList(data, e) ==
  IF isPrefixHeading(data, e) THEN "prefixHeading"
  ELSE IF isPrefixSpecialHeading(data, e) THEN "prefixSpecialHeading"
  ELSE IF At(data, 0) = "<" /\ html(data, e) > 0 THEN "html"
  ELSE IF Has(e, "Titleblock") /\ At(data, 0) = "%" THEN "titleBlock"
  ELSE IF IsEmpty(data) > 0 THEN "blank"
  ELSE IF codePrefix(data) > 0 THEN "code"
  ELSE IF Has(e, "FencedCode") /\ fencedCodeBlock(data).ret > 0 THEN "fencedCodeBlock"
  ELSE IF quotePrefix(data) > 0 THEN "quote"
  ELSE IF Has(e, "Mmark") /\ asidePrefix(data) > 0 THEN "aside"
  ELSE IF Has(e, "Mmark") /\ figureBlock(data) > 0 THEN "figureBlock"
  ELSE IF Has(e, "Tables") /\ table(data) > 0 THEN "table"
  ELSE IF uliPrefix(data) > 0 THEN "ulist"
  ELSE IF oliPrefix(data) > 0 THEN "olist"
  ELSE IF isHRule(data) THEN "hrule"
  ELSE IF Has(e, "DefinitionLists") /\ dliPrefix(data) > 0 THEN "dlist"
  ELSE IF Has(e, "MathJax") /\ blockMath(data).ret > 0 THEN "blockMath"
  ELSE IF Has(e, "Mmark") /\ documentMatter(data).ret > 0 THEN "documentMatter"
  ELSE "paragraph"

\* the test of the horizontal rule is missing: a rule that is no list item
\* goes on to paragraph
DispatchWithoutRule(data, e) ==
  IF DispatchRuleAfterList(data, e) = "hrule" THEN "paragraph"
  ELSE DispatchRuleAfterList(data, e)

Dispatch(data, e) ==
  IF isPrefixHeading(data, e) THEN "prefixHeading"
  ELSE IF isPrefixSpecialHeading(data, e) THEN "prefixSpecialHeading"
  ELSE IF At(data, 0) = "<" /\ html(data, e) > 0 THEN "html"
  ELSE IF Has(e, "Titleblock") /\ At(data, 0) = "%" THEN "titleBlock"
  ELSE IF IsEmpty(data) > 0 THEN "blank"
  ELSE IF codePrefix(data) > 0 THEN "code"
  ELSE IF Has(e, "FencedCode") /\ fencedCodeBlock(data).ret > 0 THEN "fencedCodeBlock"
  ELSE IF isHRule(data) THEN "hrule"
  ELSE IF quotePrefix(data) > 0 THEN "quote"
  ELSE IF Has(e, "Mmark") /\ asidePrefix(data) > 0 THEN "aside"
  ELSE IF Has(e, "Mmark") /\ figureBlock(data) > 0 THEN "figureBlock"
  ELSE IF Has(e, "Tables") /\ table(data) > 0 THEN "table"
  ELSE IF uliPrefix(data) > 0 THEN "ulist"
  ELSE IF oliPrefix(data) > 0 THEN "olist"
  ELSE IF Has(e, "DefinitionLists") /\ dliPrefix(data) > 0 THEN "dlist"
  ELSE IF Has(e, "MathJax") /\ blockMath(data).ret > 0 THEN "blockMath"
  ELSE IF Has(e, "Mmark") /\ documentMatter(data).ret > 0 THEN "documentMatter"
  ELSE "paragraph"

(***************************************************************************)
(* The call stack.  The top frame is the function that is running:         *)
(*   [fn "Block", pc, data]          pc "enter" before the depth test,     *)
(*                                   "loop" in the loop over data          *)
(*   [fn "quote", block]             quote, waiting for Block(raw)         *)
(*   [fn "list", ...]                list, in its loop over the items      *)
(*   [fn "listItem", pending, ...]   listItem, with the buffers it still   *)
(*                                   hands to Block                        *)
(*   [fn "paragraph", ...]           paragraph, waiting for list           *)
(***************************************************************************)
Top == stack[Len(stack)]
Below == stack[Len(stack) - 1]
Pop(st) == SubSeq(st, 1, Len(st) - 1)
SetTop(st, f) == [st EXCEPT ![Len(st)] = f]
\* a call of Block; entry keeps p.nesting and the include stack of the moment
\* of the call
BlockFrameAt(data, n, inc) ==
  [fn |-> "Block", pc |-> "enter", data |-> data,
   entry |-> [nesting |-> n, includeStack |-> inc]]
BlockFrame(data) == BlockFrameAt(data, nesting, includeStack)

(***************************************************************************)
(* The attribute line {#id .class key=value}: what is between the braces   *)
(* is cut at blanks into chunks, and every chunk is an id, a class or a    *)
(* key with a value; the line must end with the closing brace.             *)
(***************************************************************************)
RECURSIVE attributeChunksFrom(_, _, _)
attributeChunksFrom(body, i, cur) ==
  IF i > Len(body) THEN <<cur>>
  ELSE IF body[i] \in {SP, TAB}
  THEN IF cur = <<>> THEN attributeChunksFrom(body, i + 1, <<>>)
       ELSE <<cur>> \o attributeChunksFrom(body, i + 1, <<>>)
  ELSE attributeChunksFrom(body, i + 1, Append(cur, body[i]))

attributeChunk(c) ==
  /\ c # <<>>
  /\ \/ c[1] \in {".", "#"}
     \/ \E k \in 2..(Len(c) - 1) : c[k] = "="

\* p.attribute(data): the set that is staged and the data after the line's
\* closing brace, or the data as it is
attribute(data) ==
  LET none == [staged |-> FALSE, text |-> <<>>, rest |-> data]
      cut(close, chunks) ==
        IF \A k \in 1..Len(chunks) : attributeChunk(chunks[k])
        THEN [staged |-> TRUE, text |-> Slice(data, 1, close),
              rest |-> From(data, close + 1)]
        ELSE none
      braces(close) == cut(close, attributeChunksFrom(Slice(data, 1, close), 1, <<>>))
  IN IF Len(data) < 3 \/ At(data, 0) # "{" THEN none
     ELSE IF At(data, skipUntilChar(data, 1, NL) - 1) # "}" THEN none
     ELSE braces(skipUntilChar(data, 1, "}"))

\* if p.extensions&Attributes != 0 { data = p.attribute(data) } has a set to stage
AttributeAhead ==
  Top.pc = "loop" /\ Has(ext, "Attributes") /\ attribute(Top.data).staged

(***************************************************************************)
(* The include line {{path}}, after up to three spaces.  The reader of the *)
(* parser's options gives the bytes of a path: file f holds an include of  *)
(* itself, file g a line of text, any other path nothing.                  *)
(***************************************************************************)
isInclude(data) ==
  LET none == [path |-> <<>>, consumed |-> 0]
      closed(start, e) ==
        IF e + 1 >= Len(data) THEN none
        ELSE IF At(data, e + 1) # "}" THEN none
        ELSE [path |-> Slice(data, start, e), consumed |-> e + 2]
      braces(i) ==
        IF Len(data) - i < 3 THEN none
        ELSE IF At(data, i) # "{" \/ At(data, i + 1) # "{" THEN none
        ELSE closed(i + 2, skipUntilChar(data, i, "}"))
  IN braces(skipCharN(data, 0, SP, 3))

readInclude(from, path) ==
  IF path = <<"f">> THEN <<"{", "{", "f", "}", "}", NL>>
  ELSE IF path = <<"g">> THEN <<"a", NL>>
  ELSE <<>>

\* if p.extensions&Includes != 0 finds an include in the data of this round
IncludeAhead ==
  /\ Top.pc \in {"loop", "attributed"}
  /\ Has(ext, "Includes")
  /\ isInclude(Top.data).consumed > 0

\* the loop of Block has data left; pc "titled": titleBlock has returned 0 for
\* this data and the recognizers after it are tried; pc "attributed": the
\* attribute line of this round is staged and the recognizers see the rest
InLoop ==
  /\ stack # <<>> /\ Top.fn = "Block"
  /\ Top.pc \in {"loop", "titled", "attributed"} /\ Len(Top.data) > 0
  /\ ~AttributeAhead
  /\ ~IncludeAhead
Data == Top.data
\* the extensions as the rest of the loop body sees them
Exts == IF Top.pc = "titled" THEN ext \ {"Titleblock"} ELSE ext
\* data = data[k:]; continue
Advance(st, k) == [st EXCEPT ![Len(st)].data = From(@, k), ![Len(st)].pc = "loop"]
Did(rec, data, consumed, added) ==
  [rec |-> rec, data |-> data, consumed |-> consumed, added |-> added]

Done == stack = <<>>

(***************************************************************************)
(* Block: entry, depth cap, exit                                           *)
(***************************************************************************)
\* the cap is passed only when the depth is above it
capReachedLate(n) == n > maxNesting

\* p.nesting >= p.maxNesting
capReached(n) == n >= maxNesting

\* if p.nesting >= p.maxNesting { return }
BlockCapped ==
  /\ stack # <<>> /\ Top.fn = "Block" /\ Top.pc = "enter"
  /\ capReached(nesting)
  /\ stack' = Pop(stack)
  /\ last' = Did("capped", Top.data, 0, 0)
  /\ UNCHANGED <<input, ext, nodes, tip, nesting, calc, attr, includeStack, reload>>

\* p.nesting++
BlockEnter ==
  /\ stack # <<>> /\ Top.fn = "Block" /\ Top.pc = "enter"
  /\ ~capReached(nesting)
  /\ nesting' = nesting + 1
  /\ stack' = SetTop(stack, [Top EXCEPT !.pc = "loop"])
  /\ last' = Did("enter", Top.data, 0, 0)
  /\ UNCHANGED <<input, ext, nodes, tip, calc, attr, includeStack, reload>>

\* the loop has ended: p.nesting--
BlockExit ==
  /\ stack # <<>> /\ Top.fn = "Block" /\ Top.pc = "loop" /\ Len(Top.data) = 0
  /\ nesting' = nesting - 1
  /\ stack' = Pop(stack)
  /\ last' = Did("exit", <<>>, 0, 0)
  /\ UNCHANGED <<input, ext, nodes, tip, calc, attr, includeStack, reload>>

\* data = p.attribute(data): the set goes to the pending slot, in the place
\* of the one that was there; the round goes on with what follows the brace,
\* and with nothing left no recognizer adds a block and the loop ends
Attribute ==
  /\ stack # <<>> /\ Top.fn = "Block" /\ Len(Top.data) > 0
  /\ AttributeAhead
  /\ LET staged(b) ==
           /\ attr' = [pending |-> TRUE, serial |-> attr.serial + 1,
                       text |-> b.text, n0 |-> Len(nodes)]
           /\ stack' = SetTop(stack,
                         [Top EXCEPT !.data = b.rest,
                                     !.pc = IF Len(b.rest) > 0 THEN "attributed"
                                            ELSE "loop"])
           /\ last' = Did("attribute", Top.data, Len(Top.data) - Len(b.rest), 0)
     IN \E v \in {attribute(Top.data)} : staged(v)
  /\ UNCHANGED <<input, ext, nodes, tip, nesting, calc, includeStack, reload>>

\* p.includeStack.Push(path); p.Block(included): no caption follows the
\* include (caption reports 0)
Include ==
  /\ stack # <<>> /\ Top.fn = "Block" /\ Len(Top.data) > 0
  /\ ~AttributeAhead
  /\ IncludeAhead
  /\ LET called(inc, pushed) ==
           /\ includeStack' = pushed
           /\ stack' = Advance(stack, inc.consumed)
                         \o <<[fn |-> "include", path |-> inc.path],
                              BlockFrameAt(readInclude(includeStack, inc.path),
                                           nesting, pushed)>>
           /\ last' = Did("include", Top.data, inc.consumed, 0)
         found(inc) == called(inc, Append(includeStack, inc.path))
     IN \E v \in {isInclude(Top.data)} : found(v)
  /\ UNCHANGED <<input, ext, nodes, tip, nesting, calc, attr, reload>>

\* the path stays on the include stack
includeStackKept(st) == st

\* p.includeStack.Pop()
includeStackPop(st) == SubSeq(st, 1, Len(st) - 1)

\* p.includeStack.Pop(); data = data[consumed:]; continue
IncludeReturn ==
  /\ stack # <<>> /\ Top.fn = "include"
  /\ includeStack' = includeStackPop(includeStack)
  /\ stack' = Pop(stack)
  /\ last' = Did("includeReturn", <<>>, 0, 0)
  /\ UNCHANGED <<input, ext, nodes, tip, nesting, calc, attr, reload>>

(***************************************************************************)
(* The recognizers that the dispatcher calls and that do not call Block    *)
(***************************************************************************)
\* a recognizer that adds one node with AddBlock and consumes k bytes
Leaf(rec, node, k) ==
  LET added(r) ==
        /\ nodes' = r.nodes
        /\ tip' = r.tip
        /\ attr' = r.attr
        /\ stack' = Advance(stack, k)
        /\ last' = Did(rec, Data, k, 1)
        /\ UNCHANGED <<input, ext, nesting, calc, includeStack, reload>>
  IN added(AddBlock(nodes, tip, attr, [node EXCEPT !.depth = nesting, !.by = rec]))

\* a recognizer that consumes k bytes and adds nothing
Skip(rec, k) ==
  /\ stack' = Advance(stack, k)
  /\ last' = Did(rec, Data, k, 0)
  /\ UNCHANGED <<input, ext, nodes, tip, nesting, calc, attr, includeStack, reload>>

HeadingNode(h, e, extra) ==
  LET auto == h.id = <<>> /\ Has(e, "AutoHeadingIDs")
  IN [NewNode("Heading") EXCEPT
        !.level = h.level,
        !.id = IF auto THEN sanitizeHeadingID(h.content) ELSE h.id,
        !.content = h.content,
        !.flags = extra \cup (IF auto THEN {"AutoID"} ELSE {})]

PrefixHeading ==
  /\ InLoop /\ Dispatch(Data, Exts) = "prefixHeading"
  /\ LET heading(h) ==
           IF h.block THEN Leaf("prefixHeading", HeadingNode(h, ext, {}), h.skip)
           ELSE Skip("prefixHeading", h.skip)
     IN \E v \in {prefixHeading(Data, ext)} : heading(v)

PrefixSpecialHeading ==
  /\ InLoop /\ Dispatch(Data, Exts) = "prefixSpecialHeading"
  /\ LET heading(h) ==
           IF h.block
           THEN Leaf("prefixSpecialHeading", HeadingNode(h, ext, {"IsSpecial"}), h.skip)
           ELSE Skip("prefixSpecialHeading", h.skip)
     IN \E v \in {prefixSpecialHeading(Data, ext)} : heading(v)

Html ==
  /\ InLoop /\ Dispatch(Data, Exts) = "html"
  /\ LET block(i) ==
           Leaf("html",
                [NewNode("HTMLBlock") EXCEPT
                   !.content = Slice(Data, 0, backChar(Data, i, NL))],
                i)
     IN \E v \in {html(Data, ext)} : block(v)

\* titleBlock adds its Heading before it returns; when it returns 0 the loop
\* body goes on with the same data
TitleBlock ==
  /\ InLoop /\ Dispatch(Data, Exts) = "titleBlock"
  /\ LET added(t, r) ==
           /\ nodes' = r.nodes
           /\ tip' = r.tip
           /\ attr' = r.attr
           /\ stack' = IF t.ret > 0 THEN Advance(stack, t.ret)
                       ELSE SetTop(stack, [Top EXCEPT !.pc = "titled"])
           /\ last' = Did("titleBlock", Data, t.ret, 1)
           /\ UNCHANGED <<input, ext, nesting, calc, includeStack, reload>>
         block(t) ==
           added(t,
                 AddBlock(nodes, tip, attr,
                   [NewNode("Heading") EXCEPT
                      !.level = 1, !.content = t.content, !.flags = {"IsTitleblock"},
                      !.depth = nesting, !.by = "titleBlock"]))
     IN \E v \in {titleBlock(Data)} : block(v)

BlankLine ==
  /\ InLoop /\ Dispatch(Data, Exts) = "blank"
  /\ Skip("blank", IsEmpty(Data))

Code ==
  /\ InLoop /\ Dispatch(Data, Exts) = "code"
  /\ LET block(c) ==
           Leaf("code",
                [NewNode("CodeBlock") EXCEPT
                   !.content = finalizeCodeBlock(c.content, FALSE).literal],
                c.ret)
     IN \E v \in {code(Data)} : block(v)

\* with Mmark set no caption follows (caption reports 0), so the block is added
\* as without Mmark
FencedCodeBlock ==
  /\ InLoop /\ Dispatch(Data, Exts) = "fencedCodeBlock"
  /\ LET block(ret, c) ==
           Leaf("fencedCodeBlock",
                [NewNode("CodeBlock") EXCEPT
                   !.fenced = TRUE, !.info = c.info, !.content = c.literal],
                ret)
         fence(f) == \E c \in {finalizeCodeBlock(f.work, TRUE)} : block(f.ret, c)
     IN \E v \in {fencedCodeBlock(Data)} : fence(v)

\* bytes.Trim(data[:i], " \n")
RECURSIVE trimFront(_)
trimFront(d) ==
  IF Len(d) > 0 /\ d[1] \in {SP, NL} THEN trimFront(Tail(d)) ELSE d

RECURSIVE trimBack(_)
trimBack(d) ==
  IF Len(d) > 0 /\ d[Len(d)] \in {SP, NL} THEN trimBack(SubSeq(d, 1, Len(d) - 1)) ELSE d

HRule ==
  /\ InLoop /\ Dispatch(Data, Exts) = "hrule"
  /\ LET rule(i) ==
           Leaf("hrule",
                [NewNode("HorizontalRule") EXCEPT
                   !.content = trimBack(trimFront(Slice(Data, 0, i)))],
                i)
     IN \E v \in {skipUntilChar(Data, 0, NL)} : rule(v)

BlockMath ==
  /\ InLoop /\ Dispatch(Data, Exts) = "blockMath"
  /\ LET math(m) ==
           Leaf("blockMath", [NewNode("MathBlock") EXCEPT !.content = m.literal], m.ret)
     IN \E v \in {blockMath(Data)} : math(v)

\* p.AddBlock(node); p.Finalize(node)
DocumentMatter ==
  /\ InLoop /\ Dispatch(Data, Exts) = "documentMatter"
  /\ LET added(ret, r) ==
           /\ nodes' = r.nodes
           /\ tip' = Finalize(r.nodes, r.tip)
           /\ attr' = r.attr
           /\ stack' = Advance(stack, ret)
           /\ last' = Did("documentMatter", Data, ret, 1)
           /\ UNCHANGED <<input, ext, nesting, calc, includeStack, reload>>
         matter(m) ==
           added(m.ret,
                 AddBlock(nodes, tip, attr,
                   [NewNode("DocumentMatter") EXCEPT
                      !.flags = {m.matter}, !.depth = nesting,
                      !.by = "documentMatter"]))
     IN \E v \in {documentMatter(Data)} : matter(v)

(***************************************************************************)
(* Block quotes: quote adds the BlockQuote, calls Block(raw), finalizes    *)
(***************************************************************************)
Quote ==
  /\ InLoop /\ Dispatch(Data, Exts) = "quote"
  /\ LET added(q, r) ==
           /\ nodes' = r.nodes
           /\ tip' = r.tip
           /\ attr' = r.attr
           /\ stack' = Advance(stack, q.end)
                         \o <<[fn |-> "quote", block |-> r.tip], BlockFrame(q.raw)>>
           /\ last' = Did("quote", Data, q.end, 1)
         block(q) ==
           added(q,
                 AddBlock(nodes, tip, attr,
                   [NewNode("BlockQuote") EXCEPT
                      !.depth = nesting, !.by = "quote", !.src = q.raw]))
     IN \E v \in {quote(Data, ext)} : block(v)
  /\ UNCHANGED <<input, ext, nesting, calc, includeStack, reload>>

\* p.Finalize(block); return end
QuoteReturn ==
  /\ stack # <<>> /\ Top.fn = "quote"
  /\ tip' = Finalize(nodes, Top.block)
  /\ stack' = Pop(stack)
  /\ last' = Did("quoteReturn", <<>>, 0, 0)
  /\ UNCHANGED <<input, ext, nodes, nesting, calc, attr, includeStack, reload>>

(***************************************************************************)
(* Lists: list opens the List and loops over listItem; listItem adds the   *)
(* ListItem and renders its body, inline or with Block                     *)
(***************************************************************************)
DigitSeq == <<"0", "1", "2", "3", "4", "5", "6", "7", "8", "9">>
DigitVal(c) == (CHOOSE k \in 1..10 : DigitSeq[k] = c) - 1

\* strconv.Atoi with the error dropped: 0 for a text that is not a number
RECURSIVE atoiLoop(_, _, _)
atoiLoop(str, k, acc) ==
  IF k > Len(str) THEN acc
  ELSE IF str[k] \notin Digits THEN 0
  ELSE atoiLoop(str, k + 1, acc * 10 + DigitVal(str[k]))

Atoi(str) == atoiLoop(str, 1, 0)

\* the head of list: the List node is added and the loop starts at i = 0
ListFrame(rec, data, flags, list, n0) ==
  [fn |-> "list", pc |-> "loop", rec |-> rec, data |-> data, i |-> 0,
   flags |-> flags \cup {"BeginningOfList"}, list |-> list, n0 |-> n0]

ListNode(flags, start, delim) ==
  [NewNode("List") EXCEPT
     !.flags = flags \cup {"BeginningOfList"}, !.tight = TRUE,
     !.start = start, !.delim = delim, !.depth = nesting, !.by = "list"]

\* the three list branches of the dispatcher
ListOpen ==
  /\ InLoop /\ Dispatch(Data, Exts) \in {"ulist", "olist", "dlist"}
  /\ LET added(d, flags, r) ==
           /\ nodes' = r.nodes
           /\ tip' = r.tip
           /\ attr' = r.attr
           /\ stack' = Append(stack, ListFrame(d, Data, flags, r.tip, Len(nodes)))
           /\ last' = Did("listOpen", Data, 0, 1)
         typed(d, flags, start, delim) ==
           added(d, flags, AddBlock(nodes, tip, attr, ListNode(flags, start, delim)))
         \* i = p.oliPrefix(data), n the number before the delimiter
         numbered(d, i, n) ==
           typed(d,
                 IF d = "olist" THEN {"Ordered"}
                 ELSE IF d = "dlist" THEN {"Definition"} ELSE {},
                 IF d = "olist" /\ i > 2 /\ n # 1 THEN n ELSE 0,
                 IF d = "olist" /\ i > 2 THEN At(Data, i - 2) ELSE ".")
         prefixed(d, i) ==
           numbered(d, i,
                    IF Has(ext, "OrderedListStart") THEN Atoi(Slice(Data, 0, i - 2))
                    ELSE 0)
         branch(d) == prefixed(d, oliPrefix(Data))
     IN \E v \in {Dispatch(Data, Exts)} : branch(v)
  /\ UNCHANGED <<input, ext, nesting, calc, includeStack, reload>>

\* skip := p.listItem(data[i:], &flags), up to the first call of Block in it
ListItem ==
  /\ stack # <<>> /\ Top.fn = "list" /\ Top.pc = "loop" /\ Top.i < Len(Top.data)
  /\ LET data == From(Top.data, Top.i)
         put(it, r, pending) ==
           /\ nodes' = r.nodes
           /\ tip' = r.tip
           /\ attr' = r.attr
           /\ stack' = Append(SetTop(stack, [Top EXCEPT !.flags = it.flags]),
                              [fn |-> "listItem", ret |-> it.ret, pending |-> pending])
           /\ last' = Did("listItem", data, it.ret, Len(r.nodes) - Len(nodes))
         \* the body is rendered with Block, or its head is the item's paragraph
         body(it, r, asBlock, head, rest) ==
           put(it,
               IF asBlock THEN r
               ELSE withAttr(addChild(r.nodes, r.tip,
                               [NewNode("Paragraph") EXCEPT
                                  !.content = head, !.depth = nesting,
                                  !.by = "listItem"]),
                             r.attr),
               IF asBlock THEN <<head>> \o rest ELSE rest)
         added(it, r) ==
           body(it, r, "ContainsBlock" \in it.flags /\ "Term" \notin it.flags,
                IF it.sublist > 0 THEN Slice(it.raw, 0, it.sublist) ELSE it.raw,
                IF it.sublist > 0 THEN <<From(it.raw, it.sublist)>> ELSE <<>>)
         scanned(it) ==
           IF it.ok
           THEN added(it,
                  AddBlock(nodes, tip, attr,
                    [NewNode("ListItem") EXCEPT
                       !.flags = it.flags, !.bullet = it.bulletChar,
                       !.delim = it.delimiter, !.marker = it.marker,
                       !.depth = nesting, !.by = "listItem", !.src = data]))
           ELSE /\ stack' = Append(stack,
                              [fn |-> "listItem", ret |-> 0, pending |-> <<>>])
                /\ last' = Did("listItem", data, 0, 0)
                /\ UNCHANGED <<nodes, tip, attr>>
     IN \E v \in {listItem(data, Top.flags, ext)} : scanned(v)
  /\ UNCHANGED <<input, ext, nesting, calc, includeStack, reload>>

\* p.Block(rawBytes...) inside listItem
ListItemBlock ==
  /\ stack # <<>> /\ Top.fn = "listItem" /\ Top.pending # <<>>
  /\ stack' = Append(SetTop(stack, [Top EXCEPT !.pending = Tail(@)]),
                     BlockFrame(Head(Top.pending)))
  /\ last' = Did("listItemBlock", Head(Top.pending), 0, 0)
  /\ UNCHANGED <<input, ext, nodes, tip, nesting, calc, attr, includeStack, reload>>

\* the List stays as tight as it was
listTightKept(flags, tight) == tight

\* if flags&ast.ListItemContainsBlock != 0 { list.Tight = false }
listTight(flags, tight) == IF "ContainsBlock" \in flags THEN FALSE ELSE tight

\* listItem returns line; list marks the List loose, adds skip to i and ends
\* the loop or clears ListItemBeginningOfList
ListItemReturn ==
  /\ stack # <<>> /\ Top.fn = "listItem" /\ Top.pending = <<>>
  /\ LET l == Below
         over == Top.ret = 0 \/ "EndOfList" \in l.flags
     IN /\ nodes' = [nodes EXCEPT ![l.list].tight = listTight(l.flags, @)]
        /\ stack' = SetTop(Pop(stack),
                      [l EXCEPT !.i = @ + Top.ret,
                                !.pc = IF over THEN "close" ELSE "loop",
                                !.flags = IF over THEN @ ELSE @ \ {"BeginningOfList"}])
  /\ last' = Did("listItemReturn", <<>>, Top.ret, 0)
  /\ UNCHANGED <<input, ext, tip, nesting, calc, attr, includeStack, reload>>

\* the end of list: finalizeList(list); p.tip = above; return i
ListClose ==
  /\ stack # <<>> /\ Top.fn = "list"
  /\ Top.pc = "close" \/ Top.i >= Len(Top.data)
  /\ nodes' = [nodes EXCEPT ![Top.list].tight = finalizeList(nodes, Top.list),
                             ![Top.list].src = Slice(Top.data, 0, Top.i)]
  /\ tip' = nodes[Top.list].parent
  /\ IF Below.fn = "Block"
     THEN /\ stack' = Advance(Pop(stack), Top.i)
          /\ last' = Did(Top.rec, Top.data, Top.i, Len(nodes) - Top.n0)
     ELSE /\ stack' = SetTop(Pop(stack), [Below EXCEPT !.pc = "ret", !.listLen = Top.i])
          /\ last' = Did("listClose", Top.data, Top.i, Len(nodes) - Top.n0)
  /\ UNCHANGED <<input, ext, nesting, calc, attr, includeStack, reload>>

(***************************************************************************)
(* Paragraphs                                                              *)
(***************************************************************************)
renderParagraph(ns, t, a, data) ==
  IF Len(data) = 0 THEN [nodes |-> ns, tip |-> t, attr |-> a]
  ELSE AddBlock(ns, t, a,
         [NewNode("Paragraph") EXCEPT
            !.content = paragraphContent(data), !.src = data,
            !.depth = nesting, !.by = "renderParagraph"])

\* paragraph, when it ends without a call of list
Paragraph ==
  /\ InLoop /\ Dispatch(Data, Exts) = "paragraph"
  /\ LET put(pg, r) ==
           /\ nodes' = r.nodes
           /\ tip' = r.tip
           /\ attr' = r.attr
           /\ stack' = Advance(stack, pg.ret)
           /\ last' = Did("paragraph", Data, pg.ret, Len(r.nodes) - Len(nodes))
         rendered(pg, r) ==
           put(pg,
               IF pg.kind = "heading"
               THEN AddBlock(r.nodes, r.tip, r.attr,
                      [HeadingNode([level |-> pg.level, id |-> <<>>,
                                    content |-> pg.content], ext, {})
                         EXCEPT !.depth = nesting, !.by = "paragraph"])
               ELSE r)
         scanned(pg) ==
           /\ pg.kind # "list"
           /\ rendered(pg, renderParagraph(nodes, tip, attr, Slice(Data, 0, pg.upto)))
     IN \E v \in {paragraph(Data, ext)} : scanned(v)
  /\ UNCHANGED <<input, ext, nesting, calc, includeStack, reload>>

\* paragraph, when it calls p.list(data[prev:], ast.ListTypeDefinition, 0, '.')
ParagraphList ==
  /\ InLoop /\ Dispatch(Data, Exts) = "paragraph"
  /\ LET added(pg, r) ==
           /\ nodes' = r.nodes
           /\ tip' = r.tip
           /\ attr' = r.attr
           /\ stack' = stack \o
                <<[fn |-> "paragraph", pc |-> "list", data |-> Data, prev |-> pg.prev,
                   i |-> pg.i, n |-> pg.n, blank |-> pg.blank, listLen |-> 0,
                   n0 |-> Len(nodes)],
                  ListFrame("paragraphList", From(Data, pg.prev), {"Definition"},
                            r.tip, Len(nodes))>>
           /\ last' = Did("paragraphList", Data, 0, 1)
         scanned(pg) ==
           /\ pg.kind = "list"
           /\ added(pg, AddBlock(nodes, tip, attr,
                          [ListNode({"Definition"}, 0, ".") EXCEPT !.by = "paragraph"]))
     IN \E v \in {paragraph(Data, ext)} : scanned(v)
  /\ UNCHANGED <<input, ext, nesting, calc, includeStack, reload>>

\* list has returned listLen to paragraph
ParagraphReturn ==
  /\ stack # <<>> /\ Top.fn = "paragraph" /\ Top.pc = "ret"
  /\ LET fallback == Top.blank /\ Top.listLen <= 0
         put(r, ret) ==
           /\ nodes' = r.nodes
           /\ tip' = r.tip
           /\ attr' = r.attr
           /\ stack' = Advance(Pop(stack), ret)
           /\ last' = Did("paragraph", Top.data, ret, Len(r.nodes) - Top.n0)
     IN put(IF fallback
            THEN renderParagraph(nodes, tip, attr, Slice(Top.data, 0, Top.i))
            ELSE [nodes |-> nodes, tip |-> tip, attr |-> attr],
            IF fallback THEN Top.i + Top.n ELSE Top.prev + Top.listLen)
  /\ UNCHANGED <<input, ext, nesting, calc, includeStack, reload>>

(***************************************************************************)
(* Documents and the parser after construction                             *)
(***************************************************************************)
\* the lines, each ended by a newline
RECURSIVE Concat(_)
Concat(ls) == IF ls = <<>> THEN <<>> ELSE Head(ls) \o <<NL>> \o Concat(Tail(ls))

\* the documents of 1..n lines drawn from lines, with and without the newline
\* that ends the last line
Docs(lines, n) ==
  LET ended == {Concat(ls) : ls \in UNION {[1..k -> lines] : k \in 1..n}}
  IN ended \cup {SubSeq(d, 1, Len(d) - 1) : d \in ended}

\* Parse: the root is the only node and the tip, Block is called on the input
InitWith(docs, exts) ==
  /\ input \in docs
  /\ ext \in exts
  /\ nodes = <<NewNode("Document")>>
  /\ tip = 1
  /\ nesting = 0
  /\ stack = <<BlockFrameAt(input, 0, <<>>)>>
  /\ last = Did("init", <<>>, 0, 0)
  /\ calc = <<>>
  /\ attr = NoPending
  /\ includeStack = <<>>
  /\ reload = NoReload

Next ==
  \/ BlockCapped \/ BlockEnter \/ BlockExit \/ Attribute \/ Include \/ IncludeReturn
  \/ PrefixHeading \/ PrefixSpecialHeading \/ Html \/ TitleBlock \/ BlankLine
  \/ Code \/ FencedCodeBlock \/ HRule \/ Quote \/ QuoteReturn
  \/ ListOpen \/ ListItem \/ ListItemBlock \/ ListItemReturn \/ ListClose
  \/ BlockMath \/ DocumentMatter
  \/ Paragraph \/ ParagraphList \/ ParagraphReturn

(***************************************************************************)
(* Extension sets: the one main.go builds the parser with, and a wider one *)
(***************************************************************************)
MainExt ==
  {"NoIntraEmphasis", "Tables", "FencedCode", "Autolink", "Strikethrough",
   "SpaceHeadings", "OrderedListStart", "BackslashLineBreak", "DefinitionLists",
   "EmptyLinesBreakList", "Footnotes", "SuperSubscript"}

WideExt ==
  MainExt \cup {"Titleblock", "MathJax", "Mmark", "HeadingIDs", "AutoHeadingIDs",
                "LaxHTMLBlocks", "Attributes", "Includes"}

(***************************************************************************)
(* Lines of documents                                                      *)
(***************************************************************************)
LText == <<"a">>
LBlank == <<>>
LHeading == <<"#", SP, "h">>
LHashOnly == <<"#", SP>>
LHashText == <<"#", "a">>
LSpecial == <<".", "#", SP, "s">>
LTitle == <<"%", SP, "t">>
LCode == <<SP, SP, SP, SP, "c">>
LFence3 == <<BT, BT, BT>>
LFence4 == <<BT, BT, BT, BT>>
LFence5 == <<BT, BT, BT, BT, BT>>
LTilde3 == <<"~", "~", "~">>
LFenceGo == <<BT, BT, BT, "g", "o">>
LRule == <<"*", SP, "*", SP, "*">>
LDashes == <<"-", "-", "-">>
LEquals == <<"=", "=">>
LQuote == <<">", SP, "q">>
LDeepQuote == <<">", ">", ">", ">", ">", ">", "q">>
LBullet == <<"*", SP, "a">>
LBulletB == <<"-", SP, "b">>
LNumber == <<"1", ".", SP, "b">>
LNumber7 == <<"7", ")", SP, "c">>
LNested == <<SP, SP, "*", SP, "n">>
LIndented == <<SP, SP, SP, SP, "*", SP, "n">>
LDefinition == <<":", SP, "d">>
LMath == <<"$", "$", "m", "$", "$">>
LMatter == <<"{", "m", "a", "i", "n", "m", "a", "t", "t", "e", "r", "}">>
LHtmlOpen == <<"<", "p", ">", "x">>
LHtmlClose == <<"<", "/", "p", ">">>
LHtmlInline == <<"<", "b", ">", "x", "<", "/", "b", ">">>
LCodeFence == <<SP, SP, SP, SP, BT, BT, BT>>
LAttribute == <<"{", "#", "k", "}">>
LInclude == <<"{", "{", "g", "}", "}">>

\* one document for every construct, so that every recognizer runs
Samples ==
  {Concat(<<LHeading, LText, LEquals, LText, LDashes>>),
   Concat(<<LSpecial, LTitle, LBlank, LCode, LText>>),
   Concat(<<LFenceGo, LText, LFence3, LRule, LMath, LMatter>>),
   Concat(<<LHtmlOpen, LHtmlClose, LBlank, LText>>),
   Concat(<<LDeepQuote>>),
   Concat(<<LQuote, LQuote, LBlank, LText>>),
   Concat(<<LBullet, LBlank, LBullet, LNested, LNumber, LNumber7>>),
   Concat(<<LText, LDefinition, LBlank, LText, LBlank, LDefinition>>),
   Concat(<<LDefinition, LText>>),
   LTitle,
   Concat(<<LCodeFence, LText, LFence3, LText>>),
   Concat(<<LDashes, LText>>),
   Concat(<<LAttribute, LText>>),
   Concat(<<LInclude, LText>>)}

\* the lines of the general specification: one line of every kind
AnyLines ==
  {LText, LBlank, LHeading, LHashOnly, LHashText, LFence3, LRule, LQuote,
   LBullet, LDefinition, LCode}

Init ==
  \/ InitWith(Samples, {WideExt})
  \/ InitWith(Docs(AnyLines, MaxLines), {MainExt})

Spec == Init /\ [][Next]_vars

(***************************************************************************)
(* Nesting: quotes in quotes, lists in quotes, lists in lists               *)
(***************************************************************************)
LQuoteQuote == <<">", ">", SP, "q">>
LQuoteBullet == <<">", SP, "*", SP, "a">>
LQuoteNested == <<">", SP, SP, SP, "*", SP, "n">>

NestLines ==
  {LDeepQuote, LQuote, LQuoteQuote, LQuoteBullet, LQuoteNested, LBullet, LNested,
   LText}

InitNesting ==
  \/ InitWith(Samples, {WideExt})
  \/ InitWith(Docs(NestLines, MaxLines), {MainExt})

SpecNesting == InitNesting /\ [][Next]_vars

\* the proper ancestors of node k that are block quotes or list items: the
\* containers whose body is parsed by a nested call of Block
RECURSIVE BodyAncestors(_)
BodyAncestors(k) ==
  IF nodes[k].parent = 0 THEN 0
  ELSE BodyAncestors(nodes[k].parent)
       + (IF nodes[nodes[k].parent].type \in {"BlockQuote", "ListItem"} THEN 1 ELSE 0)

\* C1: the depth counter never passes the cap; a call of Block at the cap
\* returns with the tree as it was; no node lies deeper than the cap allows:
\* no chain of nested quotes and list items is longer than maxNesting
NestingCapped ==
  /\ nesting <= maxNesting
  /\ \A k \in 1..Len(nodes) :
       /\ nodes[k].depth <= maxNesting
       /\ BodyAncestors(k)
            + (IF nodes[k].type \in {"BlockQuote", "ListItem"} THEN 1 ELSE 0)
          <= maxNesting
  /\ last.rec = "capped" => last.added = 0 /\ last.consumed = 0

\* a call of Block at the cap has returned, under maxNesting nested quotes
NestingCappedWitness ==
  /\ last.rec = "capped"
  /\ nesting = maxNesting
  /\ BodyAncestors(tip) + 1 = maxNesting
  /\ nodes[tip].type = "BlockQuote"

(***************************************************************************)
(* Fences                                                                  *)
(***************************************************************************)
LFenceIndented == <<SP, SP, BT, BT, BT>>
LFenceSpaced == <<BT, BT, BT, SP>>

FenceLines ==
  {LFence3, LFence4, LFence5, LTilde3, LFenceGo, LFenceIndented, LFenceSpaced, LText}

InitFence ==
  \/ InitWith(Samples, {WideExt})
  \/ InitWith(Docs(FenceLines, MaxLines), {MainExt, WideExt})

SpecFence == InitFence /\ [][Next]_vars

\* the offsets at which the lines of d start
LineStarts(d) == {0} \cup {k + 1 : k \in {j \in 0..(Len(d) - 2) : At(d, j) = NL}}

\* the line of d that starts at b, without its newline
LineAt(d, b) ==
  Slice(d, b, CHOOSE e \in b..Len(d) :
                /\ e = Len(d) \/ At(d, e) = NL
                /\ \A j \in b..(e - 1) : At(d, j) # NL)

\* the lengths m of a run of c that makes the line a fence: at most three
\* spaces, the run, then spaces only
FenceRuns(line, c) ==
  {m \in 3..Len(line) :
     \E lead \in 0..3 :
       /\ lead + m <= Len(line)
       /\ \A j \in 1..Len(line) :
            line[j] = (IF j > lead /\ j <= lead + m THEN c ELSE SP)}

\* data opens a fence: its first line is an opening fence line and data goes
\* on after it
OpensFence(d) == isFenceLine(d, <<>>).end > 0 /\ isFenceLine(d, <<>>).end < Len(d)

\* the lengths of the closing fences of the character of the opening marker
\* on the lines after the opening line
ClosingRuns(d) ==
  UNION {FenceRuns(LineAt(d, b), isFenceLine(d, <<>>).marker[1]) :
           b \in {x \in LineStarts(d) : x >= isFenceLine(d, <<>>).end}}

OpeningRun(d) == Len(isFenceLine(d, <<>>).marker)

\* C2, as claimed: the fenced code block is recognized if and only if a later
\* line is a closing fence of the same character with a run at least as long
\* as the opening one
FenceClosedByLongerRun ==
  (InLoop /\ Has(ext, "FencedCode") /\ OpensFence(Data))
    => ((Dispatch(Data, Exts) = "fencedCodeBlock")
          <=> (\E m \in ClosingRuns(Data) : m >= OpeningRun(Data)))

\* C2, amended: the fenced code block is recognized if and only if a later
\* line is a closing fence of the same character with a run exactly as long as
\* the opening one; then the step of the dispatcher adds the fenced CodeBlock
FenceClosedBySameRun ==
  /\ (InLoop /\ Has(ext, "FencedCode") /\ OpensFence(Data))
       => ((Dispatch(Data, Exts) = "fencedCodeBlock")
             <=> (\E m \in ClosingRuns(Data) : m = OpeningRun(Data)))
  /\ last.rec = "fencedCodeBlock"
       => /\ OpeningRun(last.data) \in ClosingRuns(last.data)
          /\ nodes[Len(nodes)].type = "CodeBlock" /\ nodes[Len(nodes)].fenced

\* a block opened by four backticks has been closed and added, a line of five
\* backticks having been taken into it
FenceClosedWitness ==
  /\ last.rec = "fencedCodeBlock"
  /\ OpeningRun(last.data) = 4
  /\ 5 \in ClosingRuns(last.data)
  /\ nodes[Len(nodes)].content = LFence5 \o <<NL>>

(***************************************************************************)
(* Lists                                                                   *)
(***************************************************************************)
ListLines == {LBullet, LNumber, LDefinition, LBlank, LHeading, LNested, LText}

\* parser.New(): no extension at all
NoExt == {}

UnorderedItems == {LBullet, LBulletB}
OrderedItems == {LNumber, LNumber7}

\* ls with one blank line put after its line j
InsertBlank(ls, j) == SubSeq(ls, 1, j) \o <<LBlank>> \o SubSeq(ls, j + 1, Len(ls))

\* the item lines of the documents of LooseDocs: k items of one type
ItemRuns(k) == [1..k -> UnorderedItems] \cup [1..k -> OrderedItems]

\* the documents of 2..n items of one list type with exactly one blank line
\* between two of them
LooseDocs(n) ==
  LET ended ==
        {Concat(InsertBlank(ls, j)) :
           <<ls, j>> \in UNION {ItemRuns(k) \X (1..(k - 1)) : k \in 2..n}}
  IN ended \cup {SubSeq(d, 1, Len(d) - 1) : d \in ended}

InitList ==
  \/ InitWith(Samples, {WideExt})
  \/ InitWith(Docs(ListLines, MaxLines) \cup LooseDocs(MaxLines), {MainExt, NoExt})

SpecList == InitList /\ [][Next]_vars

\* the lists that list() has returned from, with the text each one consumed
ClosedLists == {k \in 1..Len(nodes) : nodes[k].type = "List" /\ nodes[k].src # <<>>}

BlankLineIn(d) == \E b \in LineStarts(d) : \A c \in Range(LineAt(d, b)) : c \in {SP, TAB}

\* a line whose first character after its indentation is a heading mark
HeadingLineIn(d) ==
  \E b \in LineStarts(d) :
    \E j \in 1..Len(LineAt(d, b)) :
      /\ \A x \in 1..(j - 1) : LineAt(d, b)[x] \in {SP, TAB}
      /\ \/ LineAt(d, b)[j] = "#"
         \/ j < Len(LineAt(d, b)) /\ LineAt(d, b)[j] = "." /\ LineAt(d, b)[j + 1] = "#"

\* the input is k items of one type with one blank line after item j: the tree
\* is one loose List with the k items
OneLooseList ==
  Done =>
    \A k \in 2..MaxLines :
      \A ls \in ItemRuns(k) :
        \A j \in 1..(k - 1) :
          input \in {Concat(InsertBlank(ls, j)),
                     SubSeq(Concat(InsertBlank(ls, j)), 1,
                            Len(Concat(InsertBlank(ls, j))) - 1)}
            => /\ nodes[1].children = <<2>>
               /\ nodes[2].type = "List"
               /\ ~nodes[2].tight
               /\ Len(nodes[2].children) = k
               /\ \A c \in Range(nodes[2].children) : nodes[c].type = "ListItem"

MarkerOf(line) ==
  IF dliPrefix(line) > 0 THEN "dli"
  ELSE IF oliPrefix(line) > 0 THEN "oli"
  ELSE IF uliPrefix(line) > 0 /\ ~isHRule(line) THEN "uli"
  ELSE "none"

\* the markers of the items of a list of the type in flags
MarkersOfList(flags) ==
  IF "Definition" \in flags THEN {"dli", "term"}
  ELSE IF "Ordered" \in flags THEN {"oli"}
  ELSE {"uli"}

LeadingSpaces(d) == skipChar(d, 0, SP)

\* d starts, at the indentation of the item line before it, with an item line
\* of another type than the list of flags
OtherTypeAhead(item, d, flags) ==
  /\ d # <<>>
  /\ LeadingSpaces(d) <= 3
  /\ LeadingSpaces(d) = LeadingSpaces(item)
  /\ MarkerOf(From(d, LeadingSpaces(d))) \notin MarkersOfList(flags) \cup {"none"}

KindOfMarker(m) == IF m = "dli" THEN "dlist" ELSE IF m = "oli" THEN "olist" ELSE "ulist"

ParentsOf(k) == {j \in 1..Len(nodes) : k \in Range(nodes[j].children)}

\* the first node, from t up the parents, of a type that holds vtype
RECURSIVE HolderFrom(_, _)
HolderFrom(t, vtype) ==
  IF nodes[t].type = "List" /\ vtype = "ListItem" THEN t
  ELSE IF nodes[t].type \in {"Document", "BlockQuote", "ListItem"} /\ vtype # "ListItem" THEN t
  ELSE HolderFrom(nodes[t].parent, vtype)

\* C5: at every step of the parse the nodes are a tree: the Document is the
\* one root, every other node has one parent, created before it, which is
\* the container open at the tip when the node was created, and the children
\* of a node are in the order of their creation, the order of the document
TreeShape ==
  /\ Len(nodes) >= 1
  /\ nodes[1].type = "Document" /\ nodes[1].parent = 0
  /\ ParentsOf(1) = {}
  /\ tip \in 1..Len(nodes)
  /\ \A k \in 2..Len(nodes) :
       /\ nodes[k].type # "Document"
       /\ nodes[k].parent \in 1..(k - 1)
       /\ ParentsOf(k) = {nodes[k].parent}
       /\ nodes[nodes[k].parent].type \in Containers
       /\ nodes[k].at \in 1..(k - 1)
       /\ nodes[k].parent = HolderFrom(nodes[k].at, nodes[k].type)
  /\ \A k \in 1..Len(nodes) :
       \A i, j \in 1..Len(nodes[k].children) :
         i < j => nodes[k].children[i] < nodes[k].children[j]

\* a parse has ended with a node three levels under the root and a block
\* added when the tip was a leaf
TreeShapeWitness ==
  /\ Done
  /\ \E k \in 2..Len(nodes) :
       /\ nodes[k].parent > 1 /\ nodes[nodes[k].parent].parent > 1
       /\ Len(nodes[nodes[k].parent].children) >= 2
  /\ \E k \in 2..Len(nodes) :
       nodes[nodes[k].at].type \notin Containers /\ nodes[k].parent # nodes[k].at

(***************************************************************************)
(* sanitizeHeadingID on its own: an id is derived from a text, and again   *)
(* from the id.                                                            *)
(***************************************************************************)
MaxText == 4

\* an upper-case and a lower-case letter, a digit, the dash, and two runes
\* that are neither letter nor number
TextChars == {"A", "a", "1", "-", SP, "!"}

Texts(n) == UNION {[1..k -> TextChars] : k \in 0..n} \cup {EmptyID}

InitSanitize ==
  /\ input = <<>>
  /\ ext = {}
  /\ nodes = <<NewNode("Document")>>
  /\ tip = 1
  /\ nesting = 0
  /\ stack = <<>>
  /\ last = Did("init", <<>>, 0, 0)
  /\ attr = NoPending
  /\ includeStack = <<>>
  /\ reload = NoReload
  /\ calc \in {[text |-> t, id |-> <<>>, again |-> <<>>, pc |-> "text"] :
                t \in Texts(MaxText)}

DeriveID ==
  /\ calc.pc = "text"
  /\ calc' = [calc EXCEPT !.id = sanitizeHeadingID(calc.text), !.pc = "id"]
  /\ UNCHANGED <<input, ext, nodes, tip, nesting, stack, last, attr, includeStack, reload>>

RederiveID ==
  /\ calc.pc = "id"
  /\ calc' = [calc EXCEPT !.again = sanitizeHeadingID(calc.id), !.pc = "again"]
  /\ UNCHANGED <<input, ext, nodes, tip, nesting, stack, last, attr, includeStack, reload>>

NextSanitize == DeriveID \/ RederiveID

SpecSanitize == InitSanitize /\ [][NextSanitize]_vars

\* C6: the id derived from an id is that id, and the id of a text without
\* letter and without digit is "empty"
SanitizeIdempotent ==
  /\ calc.pc = "again" => calc.again = calc.id
  /\ (calc.pc \in {"id", "again"}
        /\ \A k \in 1..Len(calc.text) :
             ~IsLetter(calc.text[k]) /\ ~IsNumber(calc.text[k]))
       => calc.id = EmptyID

\* a text of punctuation has got the id "empty", and "empty" again from it
SanitizeWitness ==
  /\ calc.pc = "again"
  /\ calc.text = <<"!", "-">>
  /\ calc.id = EmptyID
  /\ calc.again = EmptyID

\* the records of the recognizers that the loop of Block calls
Recognizers ==
  {"prefixHeading", "prefixSpecialHeading", "html", "titleBlock", "code",
   "fencedCodeBlock", "hrule", "blockMath", "documentMatter", "quote",
   "ulist", "olist", "dlist", "paragraph"}

\* C7: a recognizer that the dispatcher has called has consumed no byte and
\* added no node, or has consumed bytes and added a node
ConsumesIffAdds ==
  last.rec \in Recognizers
    => \/ last.consumed = 0 /\ last.added = 0
       \/ last.consumed > 0 /\ last.added > 0

\* the order in which the loop of Block tries the recognizers
Order ==
  <<"prefixHeading", "prefixSpecialHeading", "html", "titleBlock", "blank",
    "code", "fencedCodeBlock", "hrule", "quote", "aside", "figureBlock",
    "table", "ulist", "olist", "dlist", "blockMath", "documentMatter",
    "paragraph">>

\* the test that Block makes before it hands data to recognizer r
Matches(r, data, e) ==
  CASE r = "prefixHeading" -> isPrefixHeading(data, e)
    [] r = "prefixSpecialHeading" -> isPrefixSpecialHeading(data, e)
    [] r = "html" -> At(data, 0) = "<" /\ html(data, e) > 0
    [] r = "titleBlock" ->
         Has(e, "Titleblock") /\ At(data, 0) = "%" /\ titleBlock(data).ret > 0
    [] r = "blank" -> IsEmpty(data) > 0
    [] r = "code" -> codePrefix(data) > 0
    [] r = "fencedCodeBlock" -> Has(e, "FencedCode") /\ fencedCodeBlock(data).ret > 0
    [] r = "hrule" -> isHRule(data)
    [] r = "quote" -> quotePrefix(data) > 0
    [] r = "aside" -> Has(e, "Mmark") /\ asidePrefix(data) > 0
    [] r = "figureBlock" -> Has(e, "Mmark") /\ figureBlock(data) > 0
    [] r = "table" -> Has(e, "Tables") /\ table(data) > 0
    [] r = "ulist" -> uliPrefix(data) > 0
    [] r = "olist" -> oliPrefix(data) > 0
    [] r = "dlist" -> Has(e, "DefinitionLists") /\ dliPrefix(data) > 0
    [] r = "blockMath" -> Has(e, "MathJax") /\ blockMath(data).ret > 0
    [] r = "documentMatter" -> Has(e, "Mmark") /\ documentMatter(data).ret > 0
    [] r = "paragraph" -> TRUE

TypeFlagOf == [ulist |-> {}, olist |-> {"Ordered"}, dlist |-> {"Definition"}]

PlaceOf(r) == CHOOSE k \in 1..Len(Order) : Order[k] = r

\* the node that the recognizer of record r adds first
NodeOf(r) ==
  CASE r \in {"prefixHeading", "prefixSpecialHeading", "titleBlock"} -> "Heading"
    [] r = "html" -> "HTMLBlock"
    [] r \in {"code", "fencedCodeBlock"} -> "CodeBlock"
    [] r = "hrule" -> "HorizontalRule"
    [] r = "quote" -> "BlockQuote"
    [] r \in {"ulist", "olist", "dlist"} -> "List"
    [] r = "blockMath" -> "MathBlock"
    [] r = "documentMatter" -> "DocumentMatter"

\* C8: the recognizer that has taken the data is the first, in the fixed
\* order, whose test the data passes, and the node added is the node of that
\* recognizer: a rule for "* * *", an indented code block for a fence behind
\* four spaces
FirstMatchDecides ==
  (last.rec \in Recognizers \cup {"blank"} /\ last.consumed > 0)
    => /\ Matches(last.rec, last.data, ext)
       /\ \A k \in 1..(PlaceOf(last.rec) - 1) : ~Matches(Order[k], last.data, ext)
       /\ (last.rec \notin {"blank", "paragraph"} /\ last.added > 0)
            => /\ nodes[Len(nodes) - last.added + 1].type = NodeOf(last.rec)
               /\ last.rec \in {"code", "fencedCodeBlock"}
                    => nodes[Len(nodes)].fenced = (last.rec = "fencedCodeBlock")
               /\ last.rec \in {"ulist", "olist", "dlist"}
                    => nodes[Len(nodes) - last.added + 1].flags
                         \cap {"Ordered", "Definition"} = TypeFlagOf[last.rec]

\* "* * *" has been parsed into a HorizontalRule, though it passes the test
\* of the unordered list too
FirstMatchWitness ==
  /\ last.rec = "hrule"
  /\ last.data = LRule \o <<NL>>
  /\ uliPrefix(last.data) > 0
  /\ nodes[Len(nodes)].type = "HorizontalRule"

\* C9: when the dispatcher has come down to paragraph, paragraph has returned
\* an index above 0 that is at or after the end of the first line of the data
ParagraphTakesLine ==
  last.rec = "paragraph"
    => /\ last.consumed > 0
       /\ last.consumed >= Min(Len(last.data), skipUntilChar(last.data, 0, NL) + 1)

\* a paragraph of one line, ended by the heading on the second line, has
\* returned the index of that line
ParagraphTakesLineWitness ==
  /\ last.rec = "paragraph"
  /\ last.data = Concat(<<LText, LHeading>>)
  /\ last.consumed = Len(LText) + 1
  /\ nodes[Len(nodes)].type = "Paragraph"

\* the Paragraph nodes that paragraph has rendered
RenderedParagraphs ==
  {k \in 1..Len(nodes) :
     nodes[k].type = "Paragraph" /\ nodes[k].by = "renderParagraph"}

\* the first line of d has text for a heading: a byte that is no mark and no
\* space, and no id in braces that would take it
HasHeadingText(d, e) ==
  /\ \E j \in 1..Len(LineAt(d, 0)) : LineAt(d, 0)[j] \notin {"#", SP}
  /\ Has(e, "HeadingIDs") => "{" \notin Range(LineAt(d, 0))

LQuoteFence == <<">", SP, BT, BT, BT>>
LNestedDefinition == <<SP, SP, ":", SP, "n">>

FlagLines ==
  {LText, LBlank, LFence3, LQuoteFence, LBullet, LDefinition, LNestedDefinition,
   LSpecial}

InitFlags ==
  \/ InitWith(Samples, {WideExt})
  \/ InitWith(Docs(FlagLines, MaxLines),
              {MainExt \ {"FencedCode"}, MainExt \ {"DefinitionLists"}, NoExt})

SpecFlags == InitFlags /\ [][Next]_vars

\* C11: with FencedCode unset no fenced CodeBlock is ever in the tree, and
\* with DefinitionLists unset no definition List and no definition-term
\* ListItem is
UnsetFlagDisables ==
  /\ "FencedCode" \notin ext
       => \A k \in 1..Len(nodes) : ~(nodes[k].type = "CodeBlock" /\ nodes[k].fenced)
  /\ "DefinitionLists" \notin ext
       => \A k \in 1..Len(nodes) :
            /\ nodes[k].type = "List" => "Definition" \notin nodes[k].flags
            /\ nodes[k].type = "ListItem"
                 => "Term" \notin nodes[k].flags /\ nodes[k].marker # "term"

\* with FencedCode unset a fence, its line and its closing fence have become
\* one paragraph
UnsetFlagWitness ==
  /\ Done
  /\ "FencedCode" \notin ext
  /\ input = Concat(<<LFence3, LText, LFence3>>)
  /\ Len(nodes) = 2
  /\ nodes[2].type = "Paragraph"

\* C12: with Mmark unset isPrefixSpecialHeading is false of every data and no
\* special Heading is in the tree; with Mmark set the special heading line
\* has given a Heading of level 1 with IsSpecial
SpecialHeadingNeedsMmark ==
  /\ "Mmark" \notin ext
       => /\ InLoop => ~isPrefixSpecialHeading(Data, ext)
          /\ \A k \in 1..Len(nodes) :
               ~(nodes[k].type = "Heading" /\ "IsSpecial" \in nodes[k].flags)
  /\ ("Mmark" \in ext /\ last.rec = "prefixSpecialHeading" /\ last.added = 1)
       => /\ nodes[Len(nodes)].type = "Heading"
          /\ "IsSpecial" \in nodes[Len(nodes)].flags
          /\ nodes[Len(nodes)].level = 1

\* the start of the line after the line of d that starts at b
NextLine(d, b) == Min(Len(d), skipUntilChar(d, b, NL) + 1)

\* the blank lines of d after which the quote is over: the input ends, or a
\* line follows that is not blank and has no quote prefix
QuoteStops(d) ==
  {b \in LineStarts(d) :
     /\ IsEmpty(From(d, b)) > 0
     /\ \/ NextLine(d, b) >= Len(d)
        \/ /\ quotePrefix(From(d, NextLine(d, b))) = 0
           /\ IsEmpty(From(d, NextLine(d, b))) = 0}

\* the first of them, Len(d) when there is none
QuoteStop(d) ==
  IF QuoteStops(d) = {} THEN Len(d)
  ELSE CHOOSE b \in QuoteStops(d) : \A c \in QuoteStops(d) : b <= c

\* the lines of d from b up to stop, each without its quote prefix
RECURSIVE QuoteBody(_, _, _)
QuoteBody(d, b, stop) ==
  IF b >= stop THEN <<>>
  ELSE Slice(d, b + quotePrefix(From(d, b)), NextLine(d, b))
         \o QuoteBody(d, NextLine(d, b), stop)

\* s is a run of consecutive bytes of d
IsSliceOf(s, d) ==
  \E a \in 0..Len(d) : a + Len(s) <= Len(d) /\ Slice(d, a, a + Len(s)) = s

\* no fence can be in d
FenceFree(d) == BT \notin Range(d) /\ "~" \notin Range(d)

LFenceAmp == <<BT, BT, BT, "&", "a", "m", "p", ";">>
LFenceEsc == <<BT, BT, BT, "\\", "&">>
LFenceBrace == <<BT, BT, BT, "{", SP, "g", SP, "}">>
LFenceDash == <<BT, BT, BT, "\\", "-">>

InfoLines ==
  {LFence3, LFenceGo, LFenceAmp, LFenceEsc, LFenceBrace, LFenceDash, LText, LBlank}

InitInfo ==
  \/ InitWith(Samples, {WideExt})
  \/ InitWith(Docs(InfoLines, MaxLines), {MainExt})

SpecInfo == InitInfo /\ [][Next]_vars

RECURSIVE DropWhile(_, _)
DropWhile(s, set) ==
  IF Len(s) > 0 /\ s[1] \in set THEN DropWhile(Tail(s), set) ELSE s

RECURSIVE DropBackWhile(_, _)
DropBackWhile(s, set) ==
  IF Len(s) > 0 /\ s[Len(s)] \in set
  THEN DropBackWhile(SubSeq(s, 1, Len(s) - 1), set)
  ELSE s

\* the opening line of d after its indentation, its marker run and the spaces
\* that follow the run
AfterMarker(d) ==
  LET unmarked(l) == DropWhile(DropWhile(l, {l[1]}), {SP})
  IN unmarked(DropWhile(LineAt(d, 0), {SP}))

\* the language annotation of the opening line: the text between the braces
\* without the whitespace around it for the {lang} form, the rest of the line
\* otherwise
Annotation(d) ==
  LET r == AfterMarker(d)
      close == CHOOSE p \in 1..Len(r) : r[p] = "}" /\ \A q \in 1..(p - 1) : r[q] # "}"
      white == {SP, TAB}
  IN IF Len(r) > 0 /\ r[1] = "{"
     THEN DropBackWhile(DropWhile(SubSeq(r, 2, close - 1), white), white)
     ELSE r

\* the offset at which the closing fence line of d starts
ClosingLine(d) ==
  LET closing == {b \in LineStarts(d) :
                    /\ b >= isFenceLine(d, <<>>).end
                    /\ OpeningRun(d) \in FenceRuns(LineAt(d, b), isFenceLine(d, <<>>).marker[1])}
  IN CHOOSE b \in closing : \A x \in closing : b <= x

\* the bytes of the lines between the opening and the closing fence line
BetweenFences(d) == Slice(d, NextLine(d, 0), ClosingLine(d))

FencedNode == nodes[Len(nodes)]

UnclosedFence(d) ==
  /\ isFenceLine(d, <<>>).end > 0
  /\ \/ isFenceLine(d, <<>>).end >= Len(d)
     \/ OpeningRun(d) \notin ClosingRuns(d)

FencedBlocks(ns) == {k \in 1..Len(ns) : ns[k].type = "CodeBlock" /\ ns[k].fenced}

\* C15: at an opening fence that nothing closes fencedCodeBlock returns 0, and
\* the step of the dispatcher is the one of paragraph on the same bytes, which
\* adds no fenced code block; a step adds a fenced code block only when it is
\* the dispatcher's call of fencedCodeBlock, and then it adds one: the calls
\* that paragraph, quote and listItem make to look ahead add none
UnclosedFenceIsParagraph ==
  [][/\ (InLoop /\ "FencedCode" \in ext /\ UnclosedFence(Data))
          => /\ fencedCodeBlock(Data).ret = 0
             /\ last'.rec \in {"paragraph", "paragraphList"}
             /\ last'.data = Data
             /\ FencedBlocks(nodes') = FencedBlocks(nodes)
     /\ FencedBlocks(nodes') # FencedBlocks(nodes)
          => /\ last'.rec = "fencedCodeBlock"
             /\ FencedBlocks(nodes') = FencedBlocks(nodes) \cup {Len(nodes')}
             /\ Len(nodes') = Len(nodes) + 1]_vars

\* an opening fence that nothing closes has become a paragraph, which ended
\* where its look-ahead found a fenced code block, and no fenced code block
\* is in the tree yet
UnclosedFenceWitness ==
  /\ last.rec = "paragraph"
  /\ "FencedCode" \in ext
  /\ UnclosedFence(last.data)
  /\ last.added = 1 /\ nodes[Len(nodes)].type = "Paragraph"
  /\ last.consumed < Len(last.data)
  /\ fencedCodeBlock(From(last.data, last.consumed)).ret > 0
  /\ FencedBlocks(nodes) = {}

(***************************************************************************)
(* Definition terms                                                        *)
(***************************************************************************)
LSpacedText == <<SP, "t">>
LDefinitionTab == <<":", TAB, "e">>

TermLines == {LText, LSpacedText, LDefinition, LDefinitionTab, LBullet, LBlank}

InitTerm ==
  \/ InitWith(Samples, {WideExt})
  \/ InitWith(Docs(TermLines, MaxLines), {MainExt})

SpecTerm == InitTerm /\ [][Next]_vars

\* d starts with a text line, which is not blank and has no list marker, and
\* goes on with a line that starts with a colon and a space or a tab
TermThenDefinition(d) ==
  /\ IsEmpty(d) = 0
  /\ uliPrefix(d) = 0 /\ oliPrefix(d) = 0
  /\ At(d, 0) # ":"
  /\ NextLine(d, 0) + 1 < Len(d)
  /\ At(d, NextLine(d, 0) - 1) = NL
  /\ At(d, NextLine(d, 0)) = ":"
  /\ At(d, NextLine(d, 0) + 1) \in {SP, TAB}

\* the text of the term line: the line after its leading spaces
TermText(d) == DropWhile(LineAt(d, 0), {SP}) \o <<NL>>

ItemOf(k, j) == nodes[nodes[k].children[j]]

LHashHash == <<"#", SP, "#">>
LHashClosed == <<"#", SP, "a", SP, "#">>
LHashEscaped == <<"#", SP, "a", "\\", "#">>
LHashTwo == <<"#", "#", SP, "b", SP>>
LHashSeven == <<"#", "#", "#", "#", "#", "#", "#", SP, "c">>

HashLines == {LHeading, LHashHash, LHashClosed, LHashEscaped, LHashTwo, LHashSeven, LText}

InitHash ==
  \/ InitWith(Samples, {WideExt})
  \/ InitWith(Docs(HashLines, MaxLines), {MainExt, MainExt \ {"SpaceHeadings"}})

SpecHash == InitHash /\ [][Next]_vars

\* the number of # at the head of the line
HashRun(line) == Len(line) - Len(DropWhile(line, {"#"}))

\* the text of the line after its run of # and one space
HashText(line) == SubSeq(line, HashRun(line) + 2, Len(line))

\* the line is a run of #, a space and a text that is not empty and does not
\* start with a space
IsHashLine(line) ==
  /\ HashRun(line) >= 1
  /\ Len(line) >= HashRun(line) + 2
  /\ line[HashRun(line) + 1] = SP
  /\ line[HashRun(line) + 2] # SP

\* the number of backslashes at the end of t
RECURSIVE BackslashesAtEnd(_)
BackslashesAtEnd(t) ==
  IF Len(t) > 0 /\ t[Len(t)] = "\\"
  THEN 1 + BackslashesAtEnd(SubSeq(t, 1, Len(t) - 1))
  ELSE 0

\* t without the # at its end that no backslash escapes
RECURSIVE WithoutClosingHashes(_)
WithoutClosingHashes(t) ==
  IF /\ Len(t) > 0 /\ t[Len(t)] = "#"
     /\ BackslashesAtEnd(SubSeq(t, 1, Len(t) - 1)) % 2 = 0
  THEN WithoutClosingHashes(SubSeq(t, 1, Len(t) - 1))
  ELSE t

\* C17, as claimed: for a line of k # characters, a space and a text t that is
\* not empty, prefixHeading adds one Heading of level min(k, 6) whose content,
\* for k <= 6, is t without its unescaped closing run of # and without the
\* spaces before that run
HashLineGivesHeading ==
  (last.rec = "prefixHeading" /\ "HeadingIDs" \notin ext
     /\ IsHashLine(LineAt(last.data, 0)))
    => /\ last.added = 1
       /\ nodes[Len(nodes)].type = "Heading"
       /\ nodes[Len(nodes)].level = Min(HashRun(LineAt(last.data, 0)), 6)
       /\ nodes[Len(nodes)].level \in 1..6
       /\ HashRun(LineAt(last.data, 0)) <= 6
            => nodes[Len(nodes)].content
                 = DropBackWhile(WithoutClosingHashes(HashText(LineAt(last.data, 0))), {SP})

(***************************************************************************)
(* Explicit heading ids                                                    *)
(***************************************************************************)
LHeadingId == <<"#", SP, "h", SP, "{", "#", "i", "}">>
LSpecialId == <<".", "#", SP, "s", SP, "{", "#", "j", "}">>
LTextId == <<"u", SP, "{", "#", "k", "}">>

IdLines == {LHeadingId, LSpecialId, LTextId, LEquals, LHeading, LText}

InitId ==
  \/ InitWith(Samples, {WideExt})
  \/ InitWith(Docs(IdLines, MaxLines), {WideExt, MainExt \cup {"HeadingIDs"}})

SpecId == InitId /\ [][Next]_vars

\* the line ends with {#id}
HasExplicitId(line) ==
  /\ Len(line) >= 4 /\ line[Len(line)] = "}"
  /\ \E j \in 1..(Len(line) - 2) : line[j] = "{" /\ line[j + 1] = "#"

\* the id between the first {# of the line and the brace that ends the line
ExplicitId(line) ==
  LET j == CHOOSE x \in 1..(Len(line) - 2) :
             /\ line[x] = "{" /\ line[x + 1] = "#"
             /\ \A y \in 1..(x - 1) : ~(line[y] = "{" /\ line[y + 1] = "#")
  IN SubSeq(line, j + 2, Len(line) - 1)

\* the step has added a Heading
HeadingAdded ==
  /\ last.rec \in {"prefixHeading", "prefixSpecialHeading", "paragraph"}
  /\ last.added >= 1
  /\ nodes[Len(nodes)].type = "Heading"

\* the offset at which the line that holds offset k of d starts
LineStartAt(d, k) == CHOOSE b \in LineStarts(d) : b <= k /\ \A x \in LineStarts(d) : x <= k => x <= b

\* the line of the heading that the step has added: the first line of the data
\* for the prefixed forms, the line above the underline for the underlined one
HeadingLine ==
  IF last.rec = "paragraph"
  THEN LineAt(last.data, LineStartAt(last.data, LineStartAt(last.data, last.consumed) - 1))
  ELSE LineAt(last.data, 0)

\* the heading has the explicit id of its line and its content is without it
HasIdOfLine ==
  /\ nodes[Len(nodes)].id = ExplicitId(HeadingLine)
  /\ \A j \in 1..Len(nodes[Len(nodes)].content) : nodes[Len(nodes)].content[j] # "{"

\* an id has been derived from the content of the heading
HasDerivedId == "AutoID" \in nodes[Len(nodes)].flags

\* the prefixed forms: a heading line that starts with # or .# and ends
\* with {#id} gives a Heading with that id and a content without the {#id}
\* text, and no id is derived for it
PrefixedHeadingTakesId ==
  (HeadingAdded /\ last.rec # "paragraph" /\ "HeadingIDs" \in ext
     /\ HasExplicitId(HeadingLine))
    => HasIdOfLine /\ ~HasDerivedId

\* C18, as claimed: with HeadingIDs each of the three heading forms takes the
\* {#id} that ends its line as the id of the Heading and leaves it out of the
\* content, and an id is derived only for a heading without explicit id and
\* under AutoHeadingIDs
HeadingTakesExplicitId ==
  (HeadingAdded /\ "HeadingIDs" \in ext)
    => /\ HasExplicitId(HeadingLine) => HasIdOfLine
       /\ HasDerivedId
            => ~HasExplicitId(HeadingLine) /\ "AutoHeadingIDs" \in ext

(***************************************************************************)
(* The start number and the delimiter of an ordered list                   *)
(***************************************************************************)
LNumberSpaced == <<SP, "7", ".", SP, "c">>
LNumberParen == <<"1", ")", SP, "d">>

OrderedLines == {LNumber, LNumber7, LNumberSpaced, LNumberParen, LBullet, LText}

InitOrdered ==
  \/ InitWith(Samples, {WideExt})
  \/ InitWith(Docs(OrderedLines, MaxLines), {MainExt, MainExt \ {"OrderedListStart"}})

SpecOrdered == InitOrdered /\ [][Next]_vars

\* the digits at the head of s
RECURSIVE DigitsOf(_)
DigitsOf(s) ==
  IF Len(s) > 0 /\ s[1] \in Digits THEN <<s[1]>> \o DigitsOf(Tail(s)) ELSE <<>>

\* the number of the item line and the byte that follows it
ItemNumber(line) == Atoi(DigitsOf(DropWhile(line, {SP})))
ItemDelimiter(line) == DropWhile(DropWhile(line, {SP}), Digits)[1]

\* the dispatcher has opened an ordered list
OrderedListOpened ==
  /\ last.rec = "listOpen"
  /\ nodes[Len(nodes)].type = "List"
  /\ "Ordered" \in nodes[Len(nodes)].flags

\* C19, as claimed: the List that the dispatcher opens for an ordered item
\* line has the number and the delimiter of the line as Start and Delimiter
\* when OrderedListStart is set and the number is not 1, whatever the leading
\* spaces of the line, and Start = 0 and Delimiter = "." in every other case
OrderedStartRecorded ==
  OrderedListOpened
    => IF "OrderedListStart" \in ext /\ ItemNumber(LineAt(last.data, 0)) # 1
       THEN /\ nodes[Len(nodes)].start = ItemNumber(LineAt(last.data, 0))
            /\ nodes[Len(nodes)].delim = ItemDelimiter(LineAt(last.data, 0))
       ELSE /\ nodes[Len(nodes)].start = 0
            /\ nodes[Len(nodes)].delim = "."

(***************************************************************************)
(* The writes of Tight                                                     *)
(***************************************************************************)
ListsOf(ns) == {k \in 1..Len(ns) : ns[k].type = "List"}

\* the step is the end of list for the List k, where finalizeList runs
FinalizationOf(k) == stack # <<>> /\ Top.fn = "list" /\ Top.list = k

\* the step is the return of listItem to the loop of list for the List k,
\* with ListItemContainsBlock in the flags
LooseItemReturnOf(k) ==
  /\ Len(stack) > 1 /\ Top.fn = "listItem" /\ Top.pending = <<>>
  /\ Below.fn = "list" /\ Below.list = k
  /\ "ContainsBlock" \in Below.flags

\* C20, as claimed: a List is made tight, Tight only ever changes to false,
\* and the step that changes it is the finalization of the List
TightWrittenAtFinalization ==
  [][/\ \A k \in ListsOf(nodes') \ ListsOf(nodes) : nodes'[k].tight
     /\ \A k \in ListsOf(nodes) :
          nodes'[k].tight # nodes[k].tight
            => nodes[k].tight /\ ~nodes'[k].tight /\ FinalizationOf(k)]_vars

\* C20, amended: a List is made tight, Tight only ever changes to false, and
\* the step that changes it is the return of listItem to the loop of list
\* with ListItemContainsBlock in the flags; the finalization of the List
\* leaves Tight as it is
TightWrittenByListLoop ==
  [][/\ \A k \in ListsOf(nodes') \ ListsOf(nodes) : nodes'[k].tight
     /\ \A k \in ListsOf(nodes) :
          /\ nodes'[k].tight # nodes[k].tight
               => nodes[k].tight /\ ~nodes'[k].tight /\ LooseItemReturnOf(k)
          /\ FinalizationOf(k) => nodes'[k].tight = nodes[k].tight]_vars

\* the loop of list runs for a List of two items that is loose already: it
\* has not been finalized
LooseBeforeFinalizationWitness ==
  /\ stack # <<>> /\ Top.fn = "list" /\ Top.pc = "loop"
  /\ nodes[Top.list].src = <<>>
  /\ ~nodes[Top.list].tight
  /\ Len(nodes[Top.list].children) = 2

(***************************************************************************)
(* HTML blocks: the tags that open one                                     *)
(***************************************************************************)
LHtmlIns == <<"<", "i", "n", "s", ">", "x">>
LHtmlInsClose == <<"<", "/", "i", "n", "s", ">">>
LHtmlHr == <<"<", "h", "r", ">">>
LHtmlComment == <<"<", "!", "-", "-", "c", "-", "-", ">">>

HtmlLines ==
  {LHtmlOpen, LHtmlClose, LHtmlInline, LHtmlIns, LHtmlInsClose, LHtmlHr,
   LHtmlComment, LBlank, LText}

InitHtml ==
  \/ InitWith(Samples, {WideExt})
  \/ InitWith(Docs(HtmlLines, MaxLines), {MainExt, MainExt \cup {"LaxHTMLBlocks"}})

SpecHtml == InitHtml /\ [][Next]_vars

\* the name directly after the < that opens d
TagName(d) == Slice(d, 1, skipAlnum(d, 1))

\* d opens with a tag of the allow-list whose closing tag is searched
OpensWithBlockTag(d) ==
  TagName(d) \in blockTags \ {<<"i", "n", "s">>, <<"d", "e", "l">>}

\* d opens with an HTML comment or with an hr tag
OpensWithComment(d) == HasPrefix(d, <<"<", "!", "-", "-">>)
OpensWithHr(d) ==
  /\ Len(d) >= 4
  /\ d[2] \in {"h", "H"} /\ d[3] \in {"r", "R"} /\ d[4] \in {SP, "/", ">"}

\* the block of k bytes at the head of d is followed by a blank line, or by
\* the end of d
BlankAfter(d, k) == k >= Len(d) \/ IsEmpty(From(d, k)) > 0

\* C21, as claimed: html recognizes a block only when the name after < is in
\* the allow-list and is not ins or del, or when the block is an HTML comment
\* or an hr tag that a blank line follows; the HTMLBlock is added in no other
\* case
HtmlOpensByAllowList ==
  /\ (InLoop /\ At(Data, 0) = "<" /\ html(Data, ext) > 0)
       => \/ OpensWithBlockTag(Data)
          \/ /\ OpensWithComment(Data) \/ OpensWithHr(Data)
             /\ BlankAfter(Data, html(Data, ext))
  /\ last.rec = "html"
       => /\ nodes[Len(nodes)].type = "HTMLBlock"
          /\ \/ OpensWithBlockTag(last.data)
             \/ /\ OpensWithComment(last.data) \/ OpensWithHr(last.data)
                /\ BlankAfter(last.data, last.consumed)

(***************************************************************************)
(* HTML blocks: the closing tag that ends one                              *)
(***************************************************************************)
CloseTag(d) == <<"<", "/">> \o TagName(d) \o <<">">>

\* the closing tag of the tag that opens d stands at offset c of d
ClosesAt(d, c) ==
  /\ c + Len(CloseTag(d)) <= Len(d)
  /\ Slice(d, c, c + Len(CloseTag(d))) = CloseTag(d)

\* from offset k to the end of its line d holds spaces and tabs only, and the
\* line has an end: a newline, or a last space
BlankFrom(d, k) ==
  /\ k < Len(d)
  /\ \A j \in k..(skipUntilChar(d, k, NL) - 1) : At(d, j) \in {SP, TAB}

\* the offset after the line that holds offset k
AfterLine(d, k) == Min(Len(d), skipUntilChar(d, k, NL) + 1)

\* the block of r bytes ends with the line of a closing tag at c and, when
\* blankToo, with the blank line after it
EndsAtTag(d, r, c, blankToo) ==
  LET a == AfterLine(d, c + Len(CloseTag(d)))
  IN /\ ClosesAt(d, c)
     /\ BlankFrom(d, c + Len(CloseTag(d)))
     /\ IF blankToo
        THEN a < Len(d) /\ BlankFrom(d, a) /\ r = AfterLine(d, a)
        ELSE r = a

HtmlTagBlock == InLoop /\ At(Data, 0) = "<" /\ OpensWithBlockTag(Data) /\ html(Data, ext) > 0

\* C22, as claimed: the block of a named tag ends at a closing tag whose line
\* is blank after it and, without LaxHTMLBlocks, which a blank line follows;
\* the closing tag on the last line of the input ends the block with
\* LaxHTMLBlocks only
HtmlEndsBeforeBlankLine ==
  HtmlTagBlock
    => \E c \in 1..Len(Data) :
         IF "LaxHTMLBlocks" \in ext
         THEN EndsAtTag(Data, html(Data, ext), c, FALSE)
         ELSE EndsAtTag(Data, html(Data, ext), c, TRUE)

\* C22, amended: the closing tag on the last line of the input ends the block
\* also without LaxHTMLBlocks; the rest is as claimed
HtmlEndsBeforeBlankLineOrEnd ==
  HtmlTagBlock
    => \E c \in 1..Len(Data) :
         IF "LaxHTMLBlocks" \in ext
         THEN EndsAtTag(Data, html(Data, ext), c, FALSE)
         ELSE \/ EndsAtTag(Data, html(Data, ext), c, TRUE)
              \/ /\ EndsAtTag(Data, html(Data, ext), c, FALSE)
                 /\ html(Data, ext) = Len(Data)

\* without LaxHTMLBlocks the block of <p>x and </p>, the last line of the
\* input, has been added
HtmlEndsAtLastLineWitness ==
  /\ last.rec = "html"
  /\ "LaxHTMLBlocks" \notin ext
  /\ last.data = Concat(<<LHtmlOpen, LHtmlClose>>)
  /\ last.consumed = Len(last.data)
  /\ nodes[Len(nodes)].type = "HTMLBlock"
  /\ nodes[Len(nodes)].content = LHtmlOpen \o <<NL>> \o LHtmlClose

(***************************************************************************)
(* A fence line in a list                                                  *)
(***************************************************************************)
ItemFenceLines == {LBullet, LNumber, LFence3, LFenceGo, LFenceIndented, LText, LBlank}

InitItemFence ==
  \/ InitWith(Samples, {WideExt})
  \/ InitWith(Docs(ItemFenceLines, MaxLines), {MainExt})

SpecItemFence == InitItemFence /\ [][Next]_vars

\* the offsets of d, after its first line, of the lines that start at their
\* first column with a run of three backticks or three tildes
FenceLineStarts(d) ==
  {b \in LineStarts(d) :
     /\ b > 0 /\ b + 2 < Len(d)
     /\ At(d, b) \in {BT, "~"}
     /\ At(d, b + 1) = At(d, b) /\ At(d, b + 2) = At(d, b)}

\* listItem has gathered an item of an unordered or ordered list
ItemGathered ==
  /\ last.rec = "listItem" /\ last.added >= 1
  /\ Len(stack) > 1 /\ Top.fn = "listItem" /\ Below.fn = "list"
  /\ "Definition" \notin Below.flags

\* C23: with FencedCode, the item that listItem gathers in an unordered or
\* ordered list ends at the latest where an unindented fence line starts, and
\* when it ends there ListItemEndOfList is set; the List that the dispatcher
\* opened ends at the latest at that line, and the loop of Block goes on with
\* the fence line at the head of its data
FenceLineEndsList ==
  /\ (ItemGathered /\ "FencedCode" \in ext)
       => \A b \in FenceLineStarts(last.data) :
            /\ last.consumed <= b
            /\ last.consumed = b => "EndOfList" \in Below.flags
  /\ (last.rec \in {"ulist", "olist"} /\ "FencedCode" \in ext)
       => \A b \in FenceLineStarts(last.data) :
            /\ last.consumed <= b
            /\ last.consumed = b => (InLoop /\ Data = From(last.data, b))

\* the list of "* a" has ended at the fence line that follows its item and a
\* blank line, and the dispatcher is at that line
FenceLineEndsListWitness ==
  /\ last.rec = "ulist" /\ "FencedCode" \in ext
  /\ last.data = Concat(<<LBullet, LBlank, LFenceGo>>)
  /\ last.consumed = Len(LBullet) + 2
  /\ InLoop /\ Data = Concat(<<LFenceGo>>)

(***************************************************************************)
(* A fenced code block in a block quote                                    *)
(***************************************************************************)
QuoteFenceLines == {LQuote, LQuoteFence, LFence3, LText, LBlank}

\* a quoted fenced block whose inner lines are a blank line and a line
\* without prefix, and one whose inner line has the prefix
QuoteFenceDocs ==
  {Concat(<<LQuoteFence, LBlank, LText, LFence3>>),
   Concat(<<LQuoteFence, LQuote, LFence3, LText>>)}

InitQuoteFence ==
  \/ InitWith(Samples, {WideExt})
  \/ InitWith(Docs(QuoteFenceLines, MaxLines) \cup QuoteFenceDocs, {MainExt})

SpecQuoteFence == InitQuoteFence /\ [][Next]_vars

\* a complete fenced code block starts at offset k of d
FencedAt(d, k) == k < Len(d) /\ fencedCodeBlock(From(d, k)).ret > 0

\* the lines of the quote d at which its first fenced code block starts: a
\* line with the quote prefix that quote has reached, a complete fenced block
\* after the prefix, and no fenced block on a line before it
FirstFencedLines(d, consumed) ==
  {b \in LineStarts(d) :
     /\ b < consumed
     /\ quotePrefix(From(d, b)) > 0
     /\ FencedAt(d, b + quotePrefix(From(d, b)))
     /\ \A k \in 0..(b - 1) : ~FencedAt(d, k)}

\* the end in d of the fenced block that starts after the prefix of line b
FencedEnd(d, b) ==
  b + quotePrefix(From(d, b))
    + fencedCodeBlock(From(d, b + quotePrefix(From(d, b)))).ret

\* C24: with FencedCode, when a complete fenced code block starts on a line of
\* the quote, the quote goes on at least to the end of the block and its body
\* holds, after the lines before the block without their prefixes, the bytes
\* of the block from the opening to the closing fence as they are in the data
FencedBlockKeptInQuote ==
  (last.rec = "quote" /\ "FencedCode" \in ext)
    => \A b \in FirstFencedLines(last.data, last.consumed) :
         /\ last.consumed >= FencedEnd(last.data, b)
         /\ HasPrefix(nodes[Len(nodes)].src,
                      QuoteBody(last.data, 0, b)
                        \o Slice(last.data, b + quotePrefix(From(last.data, b)),
                                 FencedEnd(last.data, b)))

\* the quote of a fence, a blank line, a line of text without prefix and the
\* closing fence holds the four lines
FencedBlockKeptWitness ==
  /\ last.rec = "quote" /\ "FencedCode" \in ext
  /\ last.data = Concat(<<LQuoteFence, LBlank, LText, LFence3>>)
  /\ last.consumed = Len(last.data)
  /\ nodes[Len(nodes)].src = Concat(<<LFence3, LBlank, LText, LFence3>>)

(***************************************************************************)
(* Attribute lines and the pending slot                                    *)
(***************************************************************************)
LAttributeClass == <<"{", ".", "c", "}">>
LQuoteAttribute == <<">", SP, "{", "#", "q", "}">>

AttrLines ==
  {LAttribute, LAttributeClass, LQuoteAttribute, LText, LBlank, LHashOnly,
   LQuote, LBullet}

InitAttr ==
  \/ InitWith(Samples, {WideExt})
  \/ InitWith(Docs(AttrLines, MaxLines), {MainExt \cup {"Attributes"}})

SpecAttr == InitAttr /\ [][Next]_vars

\* the nodes that carry the set of staging s
Carriers(s) == {k \in 1..Len(nodes) : nodes[k].attribute.serial = s}

\* a node that carries a set is the first node opened after the staging
CarriedByNextBlock ==
  \A k \in 1..Len(nodes) :
    nodes[k].attribute.serial > 0 =>
      /\ k = nodes[k].attribute.n0 + 1
      /\ nodes[k].by # "listItem" \/ nodes[k].type = "ListItem"

\* a set in the slot is on no node, and no node was opened since the staging
PendingIsUnattached ==
  attr.pending => Carriers(attr.serial) = {} /\ Len(nodes) = attr.n0

\* the step adds a node: every node is added in a step that calls AddBlock
AddBlockStep == Len(nodes') > Len(nodes)

\* the step stages a set
StagingStep == attr'.serial # attr.serial

\* C25 as it is stated: every staged attribute set is attached to exactly one
\* node, the next block that AddBlock opens; the pending slot is empty after
\* every AddBlock; a recognizer that consumes input and calls no AddBlock
\* leaves the set in the slot.
StagedSetOnExactlyOneNode ==
  /\ [](CarriedByNextBlock /\ PendingIsUnattached)
  /\ [](Done => \A s \in 1..attr.serial : Cardinality(Carriers(s)) = 1)
  /\ [][/\ AddBlockStep => ~attr'.pending
        /\ attr.pending /\ ~AddBlockStep /\ ~StagingStep => attr' = attr]_vars

\* C25, amended: AddBlock attaches a staged attribute set to at most one node,
\* the next block that AddBlock opens; the set stays on no node when the parse
\* ends with it in the slot or a later attribute line takes its place there;
\* the pending slot is empty after every AddBlock; a recognizer that consumes
\* input and calls no AddBlock leaves the set in the slot.
StagedSetOnNextBlockOnly ==
  /\ [](CarriedByNextBlock /\ PendingIsUnattached)
  /\ [](\A s \in 1..attr.serial : Cardinality(Carriers(s)) <= 1)
  /\ [][/\ AddBlockStep => ~attr'.pending
        /\ attr.pending /\ ~AddBlockStep /\ ~StagingStep => attr' = attr
        /\ ~attr.pending /\ AddBlockStep =>
             \A k \in (Len(nodes) + 1)..Len(nodes') : nodes'[k].attribute.serial = 0
        /\ attr.pending /\ AddBlockStep =>
             Carriers(attr.serial)' = {Len(nodes) + 1}]_vars

\* the set of {#k} went past a blank line and a heading line without text and
\* is on the paragraph that follows; the slot is empty
StagedSetOnNextBlockWitness ==
  /\ input = Concat(<<LAttribute, LHashOnly, LText>>)
  /\ Done
  /\ ~attr.pending
  /\ \E k \in 1..Len(nodes) :
       /\ nodes[k].type = "Paragraph"
       /\ nodes[k].attribute.text = <<"#", "k">>
       /\ Carriers(1) = {k}

(***************************************************************************)
(* Termination of Block                                                    *)
(***************************************************************************)
LIncludeSelf == <<"{", "{", "f", "}", "}">>

LiveLines == {LIncludeSelf, LQuote, LBullet, LDefinition, LText, LBlank}

\* the documents of 1..n lines, every line ended by its newline
EndedDocs(lines, n) == {Concat(ls) : ls \in UNION {[1..k -> lines] : k \in 1..n}}

InitLive ==
  \/ InitWith(Samples, {WideExt})
  \/ InitWith(EndedDocs(LiveLines, MaxLines), {{"Includes"}, MainExt \cup {"Includes"}})

\* the parser is one sequential program: a step that can be taken is taken
SpecLive == InitLive /\ [][Next]_vars /\ WF_vars(Next)

\* the steps that end a round of the loop of Block
RoundEnds ==
  {"prefixHeading", "prefixSpecialHeading", "html", "blank", "code",
   "fencedCodeBlock", "hrule", "quote", "blockMath", "documentMatter",
   "paragraph", "ulist", "olist", "dlist", "include"}

\* the calls of Block that have passed the depth test and have not returned
BlocksEntered == {k \in 1..Len(stack) : stack[k].fn = "Block" /\ stack[k].pc # "enter"}

\* C26: Block terminates for every input that ends with a newline, under
\* every extension set: every round of the dispatcher loop consumes at least
\* one byte of its data, every listItem that list calls consumes at least one
\* byte or ends the loop of list, and the calls of Block in progress (quote
\* bodies, item bodies, files that include themselves) never number more than
\* maxNesting.
BlockTerminates ==
  /\ <>Done
  /\ [](nesting <= maxNesting /\ Cardinality(BlocksEntered) = nesting)
  /\ [][/\ last'.rec \in RoundEnds =>
             last'.consumed > 0 /\ last'.consumed <= Len(last'.data)
        /\ last'.rec = "titleBlock" =>
             last'.consumed > 0 \/ stack'[Len(stack')].pc = "titled"
        /\ last'.rec = "listItemReturn" =>
             last'.consumed > 0 \/ stack'[Len(stack')].pc = "close"]_vars

\* the file that includes itself was parsed down to the cap and the parse ended
BlockTerminatesWitness ==
  /\ Done
  /\ input = Concat(<<LIncludeSelf, LText>>)
  /\ last.rec = "exit"
  /\ Len(nodes) = 2

(***************************************************************************)
(* What a call of Block leaves behind                                      *)
(***************************************************************************)
SpecInclude == InitLive /\ [][Next]_vars

\* the step is a return of Block: the normal exit or the return at the cap
BlockReturns == stack # <<>> /\ Top.fn = "Block" /\ Len(stack') = Len(stack) - 1

\* the step is the end of an include: Block(included) has returned
IncludeEnds == stack # <<>> /\ Top.fn = "include" /\ Len(stack') = Len(stack) - 1

\* C27: every call of Block leaves p.nesting and the include stack as they
\* were when it was entered, on the normal exit and on the return at the cap;
\* the push of an include is undone by one pop when Block(included) has
\* returned, also when it returned at the cap.
BlockRestoresNestingAndIncludes ==
  [][/\ BlockReturns =>
          /\ nesting' = Top.entry.nesting
          /\ includeStack' = Top.entry.includeStack
          /\ Top.pc = "enter" => nesting' = nesting /\ nesting >= maxNesting
          /\ Top.pc # "enter" => nesting' = nesting - 1
     /\ IncludeEnds =>
          /\ includeStack = Append(includeStack', Top.path)
          /\ includeStack' = Below.entry.includeStack]_vars

\* Block(included) has returned at the cap, with the paths of the three
\* includes that led there still on the include stack, and the parse ends
\* with the stack empty
ReturnedAtCapWitness ==
  /\ stack # <<>> /\ Top.fn = "include"
  /\ last.rec = "capped"
  /\ Len(includeStack) = maxNesting
  /\ nesting = maxNesting

(***************************************************************************)
(* The text that paragraph consumes                                        *)
(***************************************************************************)
LTextB == <<"b">>

ParaLines == {LText, LTextB, LDefinition, LBlank, LEquals}

InitPara ==
  \/ InitWith(Samples, {WideExt})
  \/ InitWith(Docs(ParaLines, MaxLines), {MainExt})

SpecPara == InitPara /\ [][Next]_vars

TextLetters == {"a", "b", "d"}

\* how often c stands in seq
CountIn(c, seq) == Cardinality({k \in 1..Len(seq) : seq[k] = c})

\* how often c stands in the content of the last n nodes
CountInAdded(c, n) ==
  Cardinality({p \in ((Len(nodes) - n + 1)..Len(nodes)) \X (1..Len(input)) :
                 /\ p[2] <= Len(nodes[p[1]].content)
                 /\ nodes[p[1]].content[p[2]] = c})

\* C28: paragraph drops no text: when paragraph has returned, every letter of
\* the bytes it reports as consumed stands in the content of a node it added,
\* itself or through list; with DefinitionLists set the lines before the term
\* line of a definition are a Paragraph in front of the definition list.
ParagraphDropsNoText ==
  last.rec = "paragraph" =>
    \A c \in TextLetters :
      CountIn(c, Slice(last.data, 0, last.consumed)) <= CountInAdded(c, last.added)

(***************************************************************************)
(* The render hook of main.go for code blocks                              *)
(***************************************************************************)
\* SpecialTrim: input[:end] with end the index of the last newline; a slice
\* up to -1 is a run-time panic
SpecialTrim(in) ==
  LET cut(end) ==
        IF end < 0 THEN [panic |-> TRUE, out |-> <<>>]
        ELSE [panic |-> FALSE, out |-> Slice(in, 0, end)]
  IN cut(LastIndexByte(in, NL))

\* Format: the source goes through SpecialTrim to the lexer
Format(source, language) == SpecialTrim(source)

\* CodeBlock: Format when the node has an Info, the escaped Literal otherwise
CodeBlockPanics(node) ==
  IF Len(node.info) # 0 THEN Format(node.content, node.info).panic ELSE FALSE

\* C29: no fenced CodeBlock that the parser produces makes the render hook
\* panic: when the node has an Info, its Literal holds a newline, so that
\* SpecialTrim finds one; a fence with a language and an empty body is among
\* these.
FencedCodeBlockRenders ==
  \A k \in 1..Len(nodes) :
    nodes[k].type = "CodeBlock" /\ nodes[k].fenced => ~CodeBlockPanics(nodes[k])

(***************************************************************************)
(* Live reload: the debouncer and the event loop of WatchDirectories       *)
(* (package reload).  reload holds                                         *)
(*   mu      the goroutine that holds d.mu, 0 when it is free              *)
(*   timer   d.timer: the number of the timer set last, 0 for nil          *)
(*   timers  the timers in the order of time.AfterFunc; timer k runs the   *)
(*           callback handed to the k-th AfterFunc                         *)
(*   pc      where each goroutine stands in the loop and in add            *)
(*   queue   the file-system events each goroutine still gets              *)
(*   ran     the timers whose callback has run, in that order              *)
(*   expired an add has found the timer of the add before it expired       *)
(***************************************************************************)
\* the number of events of a burst
MaxEvents == 3

\* goroutine 1 is the loop of WatchDirectories, goroutine 2 one more caller
\* of the debounce function
Goroutines == {1, 2}

\* Rename is handled as Remove is
EventKinds == {"Create", "Write", "Remove"}

Bursts(n) == UNION {[1..k -> EventKinds] : k \in 1..n}

InitReload ==
  /\ input = <<>>
  /\ ext = {}
  /\ nodes = <<NewNode("Document")>>
  /\ tip = 1
  /\ nesting = 0
  /\ stack = <<>>
  /\ last = Did("init", <<>>, 0, 0)
  /\ calc = <<>>
  /\ attr = NoPending
  /\ includeStack = <<>>
  /\ \E burst \in Bursts(MaxEvents), other \in {<<>>, <<"Write">>} :
       reload = [mu |-> 0, timer |-> 0, timers |-> <<>>,
                 pc |-> [g \in Goroutines |-> "idle"],
                 queue |-> [g \in Goroutines |-> IF g = 1 THEN burst ELSE other],
                 ran |-> <<>>, expired |-> FALSE]

Parser == <<input, ext, nodes, tip, nesting, stack, last, calc, attr, includeStack>>

\* case e := <-w.Events: Create (when w.Add succeeds) and Write call debounce,
\* Rename and Remove only take the watches away
HandleEvent(g) ==
  /\ reload.pc[g] = "idle" /\ reload.queue[g] # <<>>
  /\ \E added \in BOOLEAN :
       LET e == Head(reload.queue[g])
           debounced == e = "Write" \/ (e = "Create" /\ added)
       IN reload' = [reload EXCEPT !.queue[g] = Tail(@),
                                   !.pc[g] = IF debounced THEN "lock" ELSE "idle"]
  /\ UNCHANGED Parser

\* the mutex is never held
muFreeAlways(mu) == TRUE

\* d.mu.Lock() goes on when no goroutine holds the mutex
muFree(mu) == mu = 0

\* d.mu.Lock()
Lock(g) ==
  /\ reload.pc[g] = "lock" /\ muFree(reload.mu)
  /\ reload' = [reload EXCEPT !.mu = g, !.pc[g] = "stop"]
  /\ UNCHANGED Parser

\* if d.timer != nil { d.timer.Stop() }: a timer that has not fired never does
StopTimer(g) ==
  /\ reload.pc[g] = "stop"
  /\ reload' = [reload EXCEPT
                  !.timers = IF reload.timer # 0 /\ @[reload.timer] = "active"
                             THEN [@ EXCEPT ![reload.timer] = "stopped"] ELSE @,
                  !.expired = @ \/ (reload.timer # 0
                                    /\ reload.timers[reload.timer] = "fired"),
                  !.pc[g] = "set"]
  /\ UNCHANGED Parser

\* d.timer = time.AfterFunc(d.after, f)
AfterFunc(g) ==
  /\ reload.pc[g] = "set"
  /\ reload' = [reload EXCEPT !.timers = Append(@, "active"),
                              !.timer = Len(reload.timers) + 1,
                              !.pc[g] = "unlock"]
  /\ UNCHANGED Parser

\* defer d.mu.Unlock()
Unlock(g) ==
  /\ reload.pc[g] = "unlock"
  /\ reload' = [reload EXCEPT !.mu = 0, !.pc[g] = "idle"]
  /\ UNCHANGED Parser

\* some goroutine still has an event to handle or is inside add
Busy == \E g \in Goroutines : reload.pc[g] # "idle" \/ reload.queue[g] # <<>>

\* the timer expires and its callback runs: reload.cond.Broadcast()
Fire(k) ==
  /\ reload.timers[k] = "active"
  /\ reload' = [reload EXCEPT !.timers[k] = "fired", !.ran = Append(@, k)]
  /\ UNCHANGED Parser

NextReload ==
  \/ \E g \in Goroutines :
       HandleEvent(g) \/ Lock(g) \/ StopTimer(g) \/ AfterFunc(g) \/ Unlock(g)
  \/ \E k \in 1..Len(reload.timers) : Fire(k)

\* goroutines run on and timers expire
SpecReload == InitReload /\ [][NextReload]_vars /\ WF_vars(NextReload)

Pending == {k \in 1..Len(reload.timers) : reload.timers[k] = "active"}

\* the burst is over: nothing left to handle, nobody inside add, no timer set
Quiet == ~Busy /\ Pending = {}

\* C30 as it is stated: the debouncer has at most one pending timer; when
\* every add comes before the timer of the add before it has expired, only the
\* callback of the last add runs, once; a burst of file-system events gives
\* exactly one reload callback.
BurstGivesOneReload ==
  /\ [](Cardinality(Pending) <= 1)
  /\ [](~reload.expired => \A i \in 1..Len(reload.ran) : reload.ran[i] = reload.timer)
  /\ [](Quiet /\ ~reload.expired => Len(reload.ran) = 1)
  /\ <>[]Quiet

\* C30, amended: the same, with exactly one reload callback for a burst in
\* which at least one event is a Write or a Create whose directory could be
\* watched, and none for a burst of other events (Rename, Remove, a Create
\* whose w.Add failed).
BurstGivesOneReloadIfDebounced ==
  /\ [](Cardinality(Pending) <= 1)
  /\ [](~reload.expired => \A i \in 1..Len(reload.ran) : reload.ran[i] = reload.timer)
  /\ [](Quiet /\ ~reload.expired =>
          Len(reload.ran) = IF reload.timers = <<>> THEN 0 ELSE 1)
  /\ <>[]Quiet

\* three adds from two goroutines, the first two timers stopped, the callback
\* of the third has run once
BurstGivesOneReloadWitness ==
  /\ Quiet /\ ~reload.expired
  /\ reload.timers = <<"stopped", "stopped", "fired">>
  /\ reload.ran = <<3>>

====
